---- MODULE Spec2Model ----
(***************************************************************************)
(* A model of perfme's measurement engine: the registry that describe /    *)
(* measure / measureAsync / evaluate build (src/src/server.ts, lower       *)
(* half), the plan that MeasurementEngine.runMeasurements derives from it, *)
(* the run itself (group -> data size -> leaf, with cooperative stop and   *)
(* skip) and the server wrapper that forwards progress, completion and     *)
(* failure to a WebSocket connection.                                      *)
(*                                                                         *)
(* JavaScript runs one piece of synchronous code at a time.  The variable  *)
(* `active` names the run whose synchronous code is executing (0: the      *)
(* event loop is idle).  Message handlers (start / stop / skip) and the    *)
(* resumption of an awaited promise need active = 0; an await sets it to 0.*)
(***************************************************************************)
EXTENDS Integers, Sequences, FiniteSets, TLC

(***************************************************************************)
(* Bounds of the model.                                                    *)
(***************************************************************************)
MaxSizes == 2          \* longest dataUnitSizes list of a run configuration
MaxSeriesCount == 2    \* largest seriesCount and memoryMeasurementsCount of a run configuration
MaxDataUnits == 2      \* largest dataUnitsCount of a run configuration
MaxSeriesSize == 3     \* largest seriesSize of a run configuration
MaxPathLen == 2        \* longest path and longest pattern given to the matcher on its own
MaxSamples == 3        \* longest list of series durations given to the statistics on their own
MaxTenths == 2         \* largest duration given to the statistics, in tenths of a millisecond
MaxNodes == 4          \* most nodes registered under the root by the registration calls on their own
MaxShells == 2         \* longest list of functions given to a Measurer
MaxSeriesLength == 2   \* largest seriesLength given to warmup and measure
MaxRestarts == 1       \* most runs started after an earlier run has ended
MaxCalls == 2          \* most calls of warmup, measure and reset on one Measurer, and of measureSettings
Precision == 9         \* significant bits of a number in the statistics (a double has 53)

(***************************************************************************)
(* Optional values: undefined is None, a present value v is Some(v).       *)
(* Coalesce is JavaScript's a ?? b.                                        *)
(***************************************************************************)
None == <<>>
Some(v) == <<v>>
Coalesce(a, b) == IF Len(a) = 0 THEN b ELSE a
Get(o) == o[1]

RECURSIVE SumSeq(_)
\* Array.prototype.reduce((acc, v) => acc + v, 0)
SumSeq(s) == IF Len(s) = 0 THEN 0 ELSE s[1] + SumSeq(Tail(s))

\* Math.round of the non-negative rational n / d (d > 0): halves round up.
RoundDiv(n, d) == (2 * n + d) \div (2 * d)

Last(s) == s[Len(s)]
Front(s) == SubSeq(s, 1, Len(s) - 1)

RECURSIVE SeqsUpTo(_, _)
\* all sequences over S of length at most n
SeqsUpTo(S, n) ==
    IF n = 0 THEN {<<>>}
    ELSE LET shorter == SeqsUpTo(S, n - 1)
         IN  shorter \cup {Append(s, x) : s \in {t \in shorter : Len(t) = n - 1}, x \in S}

(***************************************************************************)
(* Array.prototype.join(' > ') on a path of titles.                        *)
(***************************************************************************)
Separator == " > "

RECURSIVE Join(_)
Join(path) ==
    IF Len(path) = 0 THEN ""
    ELSE IF Len(path) = 1 THEN path[1]
    ELSE path[1] \o Separator \o Join(Tail(path))

(***************************************************************************)
(* The registry: the hierarchy (a heap of nodes, node 1 is rootNode; a     *)
(* describe node's children are node ids in declaration order), the two    *)
(* flat legacy lists and the describe context stack.                       *)
(***************************************************************************)
RootId == 1

rootNode ==
    [type |-> "describe", title |-> "__root__", path |-> <<>>, children |-> <<>>,
     fn |-> "", dataGenerator |-> "", isAsync |-> FALSE]

EmptyRegistry ==
    [nodes |-> <<rootNode>>,
     registeredFunctions |-> <<>>,
     customEvaluations |-> <<>>,
     describeContextStack |-> <<RootId>>]

CurrentContext(reg) == Last(reg.describeContextStack)

HasChild(reg, id, P(_)) == \E i \in 1..Len(reg.nodes[id].children) : P(reg.nodes[reg.nodes[id].children[i]])

DuplicateTitle(reg, title) ==
    LET SameTitle(child) == child.title = title
    IN  HasChild(reg, CurrentContext(reg), SameTitle)

HasMeasure(reg) ==
    LET IsMeasure(child) == child.type = "measure"
    IN  HasChild(reg, CurrentContext(reg), IsMeasure)

HasEvaluate(reg) ==
    LET IsEvaluate(child) == child.type = "evaluate"
    IN  HasChild(reg, CurrentContext(reg), IsEvaluate)

\* pushes a new node as the last child of the current context
PushChild(reg, node) ==
    LET id == Len(reg.nodes) + 1
        ctx == CurrentContext(reg)
    IN  [reg EXCEPT !.nodes = Append([@ EXCEPT ![ctx].children = Append(@, id)], node)]

LegacyGroup(path) == IF Len(path) > 0 THEN path[1] ELSE "default"
LegacySubGroup(path) == IF Len(path) > 1 THEN path[Len(path) - 1] ELSE path[1]

DescribeThrows(reg, title) ==
    \/ title = ""
    \/ DuplicateTitle(reg, title)
    \/ HasMeasure(reg) /\ HasEvaluate(reg)

\* describe(title, runner) up to the call of runner
DescribeEnter(reg, title) ==
    IF DescribeThrows(reg, title) THEN reg
    ELSE LET path == Append(reg.nodes[CurrentContext(reg)].path, title)
             node == [type |-> "describe", title |-> title, path |-> path, children |-> <<>>,
                      fn |-> "", dataGenerator |-> "", isAsync |-> FALSE]
             pushed == PushChild(reg, node)
         IN  [pushed EXCEPT !.describeContextStack = Append(@, Len(pushed.nodes))]

\* describe(title, runner) after runner: the finally block
DescribeExit(reg) == [reg EXCEPT !.describeContextStack = Front(@)]

\* faulty variant: measure beside an evaluate of the same describe block is accepted
MeasureThrowsOnTitleOnly(reg, title) ==
    \/ title = ""
    \/ DuplicateTitle(reg, title)
MeasureThrows(reg, title) ==
    \/ title = ""
    \/ DuplicateTitle(reg, title)
    \/ HasEvaluate(reg)

\* faulty variant: the node is pushed before the test for an evaluate sibling
RegisterMeasurePushingFirst(reg, title, fn, dataGenerator, isAsync) ==
    IF title = "" \/ DuplicateTitle(reg, title) THEN reg
    ELSE LET path == Append(reg.nodes[CurrentContext(reg)].path, title)
             node == [type |-> "measure", title |-> title, path |-> path, children |-> <<>>,
                      fn |-> fn, dataGenerator |-> dataGenerator, isAsync |-> isAsync]
             pushed == PushChild(reg, node)
         IN  IF HasEvaluate(reg) THEN pushed
             ELSE [pushed EXCEPT !.registeredFunctions =
                     Append(@, [group |-> LegacyGroup(path), subGroup |-> LegacySubGroup(path),
                                title |-> title, fn |-> fn, dataGenerator |-> dataGenerator,
                                isAsync |-> isAsync, path |-> path])]

\* measure (isAsync = FALSE) and measureAsync (isAsync = TRUE)
RegisterMeasure(reg, title, fn, dataGenerator, isAsync) ==
    IF MeasureThrows(reg, title) THEN reg
    ELSE LET path == Append(reg.nodes[CurrentContext(reg)].path, title)
             node == [type |-> "measure", title |-> title, path |-> path, children |-> <<>>,
                      fn |-> fn, dataGenerator |-> dataGenerator, isAsync |-> isAsync]
             pushed == PushChild(reg, node)
         IN  [pushed EXCEPT !.registeredFunctions =
                 Append(@, [group |-> LegacyGroup(path), subGroup |-> LegacySubGroup(path),
                            title |-> title, fn |-> fn, dataGenerator |-> dataGenerator,
                            isAsync |-> isAsync, path |-> path])]

EvaluateThrows(reg, title) ==
    \/ title = ""
    \/ DuplicateTitle(reg, title)
    \/ HasMeasure(reg)

RegisterEvaluate(reg, title, fn, dataGenerator) ==
    IF EvaluateThrows(reg, title) THEN reg
    ELSE LET path == Append(reg.nodes[CurrentContext(reg)].path, title)
             node == [type |-> "evaluate", title |-> title, path |-> path, children |-> <<>>,
                      fn |-> fn, dataGenerator |-> dataGenerator, isAsync |-> FALSE]
             pushed == PushChild(reg, node)
         IN  [pushed EXCEPT !.customEvaluations =
                 Append(@, [group |-> LegacyGroup(path), subGroup |-> LegacySubGroup(path),
                            title |-> title, fn |-> fn, dataGenerator |-> dataGenerator,
                            path |-> path])]

(***************************************************************************)
(* The registries the runs of this model start from, each built by the     *)
(* registration calls a test file would make.                              *)
(***************************************************************************)
\* describe('A', () => { measure x, measure y (same generator) });
\* describe('B', () => { evaluate u, evaluate v (different generators) })
RegistryShared ==
    LET a0 == DescribeEnter(EmptyRegistry, "A")
        a1 == RegisterMeasure(a0, "x", "fx", "g1", FALSE)
        a2 == RegisterMeasure(a1, "y", "fy", "g1", FALSE)
        a3 == DescribeExit(a2)
        b0 == DescribeEnter(a3, "B")
        b1 == RegisterEvaluate(b0, "u", "fu", "g2")
        b2 == RegisterEvaluate(b1, "v", "fv", "g3")
    IN  DescribeExit(b2)

\* describe('A', () => { measure x; describe('S', () => measureAsync p); measure y })
RegistryNested ==
    LET a0 == DescribeEnter(EmptyRegistry, "A")
        a1 == RegisterMeasure(a0, "x", "fx", "g1", FALSE)
        s0 == DescribeEnter(a1, "S")
        s1 == RegisterMeasure(s0, "p", "fp", "g1", TRUE)
        s2 == DescribeExit(s1)
        a2 == RegisterMeasure(s2, "y", "fy", "g2", FALSE)
    IN  DescribeExit(a2)

\* measure t at top level; describe('E', () => evaluate u);
\* describe('F', () => measure w)
RegistryTopLevel ==
    LET t0 == RegisterMeasure(EmptyRegistry, "t", "ft", "g1", FALSE)
        e0 == DescribeEnter(t0, "E")
        e1 == RegisterEvaluate(e0, "u", "fu", "g2")
        e3 == DescribeExit(e1)
        f0 == DescribeEnter(e3, "F")
        f1 == RegisterMeasure(f0, "w", "fw", "g1", FALSE)
    IN  DescribeExit(f1)

\* describe('a', () => { measure 'b > c'; describe('b', () => measure 'c') }):
\* two leaves whose paths join to the same key
RegistryJoined ==
    LET a0 == DescribeEnter(EmptyRegistry, "a")
        a1 == RegisterMeasure(a0, "b > c", "f1", "g1", FALSE)
        b0 == DescribeEnter(a1, "b")
        b1 == RegisterMeasure(b0, "c", "f2", "g1", FALSE)
        b2 == DescribeExit(b1)
    IN  DescribeExit(b2)

\* describe('A', () => measure '> B'); describe('A >', () => measure 'B'): no title holds
\* the separator, and the two paths join to the same key
RegistryEdged ==
    LET a0 == DescribeEnter(EmptyRegistry, "A")
        a1 == RegisterMeasure(a0, "> B", "f1", "g1", FALSE)
        a2 == DescribeExit(a1)
        b0 == DescribeEnter(a2, "A >")
        b1 == RegisterMeasure(b0, "B", "f2", "g1", FALSE)
    IN  DescribeExit(b1)

Registries == {RegistryShared, RegistryNested, RegistryTopLevel, RegistryJoined}

(***************************************************************************)
(* Path Matcher.  A pattern segment is [kind |-> "any"] (undefined),       *)
(* [kind |-> "str", s |-> title] or [kind |-> "arr", v |-> set of titles]. *)
(***************************************************************************)
Wildcard == [kind |-> "any"]
Str(s) == [kind |-> "str", s |-> s]
Arr(S) == [kind |-> "arr", v |-> S]

\* faulty variant: a set segment that matches whatever the path holds
SegmentMatchesAnyOfSet(pathSegment, patternSegment) ==
    CASE patternSegment.kind = "any" -> TRUE
      [] patternSegment.kind = "str" -> pathSegment = patternSegment.s
      [] patternSegment.kind = "arr" -> patternSegment.v # {}
\* one level of the pattern against the path segment of that level
SegmentMatches(pathSegment, patternSegment) ==
    CASE patternSegment.kind = "any" -> TRUE
      [] patternSegment.kind = "str" -> pathSegment = patternSegment.s
      [] patternSegment.kind = "arr" -> pathSegment \in patternSegment.v

\* faulty variant: the levels that both have are compared, without the length test
matchesCommonLevels(path, pattern) ==
    \A i \in 1..Len(pattern) : i <= Len(path) => SegmentMatches(path[i], pattern[i])
matchesPathPattern(path, pattern) ==
    IF Len(pattern) > Len(path) THEN FALSE
    ELSE \A i \in 1..Len(pattern) : SegmentMatches(path[i], pattern[i])

(***************************************************************************)
(* Plan Builder (runMeasurements, up to the measurement loop).             *)
(***************************************************************************)
\* config.selectedPaths applied to one of the flat lists
FilterBySelectedPaths(list, selectedPaths) ==
    IF Len(selectedPaths) > 0 /\ Len(Get(selectedPaths)) > 0
    THEN LET Selected(f) ==
                 \E i \in 1..Len(Get(selectedPaths)) : matchesPathPattern(f.path, Get(selectedPaths)[i])
         IN  SelectSeq(list, Selected)
    ELSE list

RECURSIVE traverseNode(_, _)
\* the measure and evaluate nodes below node id, depth first, children in declaration order
traverseNode(reg, id) ==
    LET node == reg.nodes[id]
        RECURSIVE Over(_)
        Over(i) == IF i > Len(node.children) THEN <<>>
                   ELSE traverseNode(reg, node.children[i]) \o Over(i + 1)
    IN  IF node.type \in {"measure", "evaluate"}
        THEN <<[type |-> node.type, path |-> node.path, title |-> node.title]>>
        ELSE Over(1)

\* Map.get after the Map.set calls of the loop over list: the last entry set under the key wins
ByPath(list, pathKey) ==
    LET hits == {i \in 1..Len(list) : Len(list[i].path) > 0 /\ Join(list[i].path) = pathKey}
    IN  IF hits = {} THEN None
        ELSE Some(list[CHOOSE i \in hits : \A j \in hits : j <= i])

\* the owning path key of a leaf
keyPath(path) == IF Len(path) > 1 THEN Join(Front(path)) ELSE path[1]

RECURSIVE UnifiedFrom(_, _, _, _)
UnifiedFrom(orderedNodes, filteredFunctions, filteredEvals, registrationIndex) ==
    IF Len(orderedNodes) = 0 THEN <<>>
    ELSE LET node == orderedNodes[1]
             found == IF node.type = "measure" THEN ByPath(filteredFunctions, Join(node.path))
                      ELSE ByPath(filteredEvals, Join(node.path))
         IN  IF Len(found) = 0
             THEN UnifiedFrom(Tail(orderedNodes), filteredFunctions, filteredEvals, registrationIndex)
             ELSE <<[type |-> node.type, registrationIndex |-> registrationIndex,
                     pathKey |-> keyPath(node.path), title |-> node.title,
                     target |-> Get(found)]>>
                  \o UnifiedFrom(Tail(orderedNodes), filteredFunctions, filteredEvals,
                                 registrationIndex + 1)

unifiedItems(reg, selectedPaths) ==
    UnifiedFrom(traverseNode(reg, RootId),
                FilterBySelectedPaths(reg.registeredFunctions, selectedPaths),
                FilterBySelectedPaths(reg.customEvaluations, selectedPaths), 0)

RECURSIVE SortByRegistrationIndex(_)
\* items.sort((a, b) => a.registrationIndex - b.registrationIndex)
SortByRegistrationIndex(items) ==
    IF Len(items) <= 1 THEN items
    ELSE LET least == CHOOSE i \in 1..Len(items) :
                          \A j \in 1..Len(items) :
                              \/ items[i].registrationIndex < items[j].registrationIndex
                              \/ items[i].registrationIndex = items[j].registrationIndex /\ i <= j
             rest == [k \in 1..(Len(items) - 1) |-> IF k < least THEN items[k] ELSE items[k + 1]]
         IN  <<items[least]>> \o SortByRegistrationIndex(rest)

itemsByPathKey(unified) ==
    [key \in {unified[i].pathKey : i \in 1..Len(unified)} |->
        LET InGroup(item) == item.pathKey = key
        IN  SortByRegistrationIndex(SelectSeq(unified, InGroup))]

RECURSIVE allPathKeysByLastAppearance(_)
\* faulty variant: the path keys in order of last appearance
allPathKeysByLastAppearance(unified) ==
    IF Len(unified) = 0 THEN <<>>
    ELSE LET after == allPathKeysByLastAppearance(Tail(unified))
             key == Head(unified).pathKey
         IN  IF \E i \in 1..Len(after) : after[i] = key THEN after ELSE <<key>> \o after
RECURSIVE allPathKeys(_)
\* the path keys in order of first appearance
allPathKeys(unified) ==
    IF Len(unified) = 0 THEN <<>>
    ELSE LET before == allPathKeys(Front(unified))
             key == Last(unified).pathKey
         IN  IF \E i \in 1..Len(before) : before[i] = key THEN before ELSE Append(before, key)

\* faulty variant: the total counted per group instead of per leaf
totalStepsPerGroup(keys, byKey, dataUnitSizes) == SumSeq(dataUnitSizes) * Len(keys)
\* `totalSteps += dataSize * items.length` over all the groups and data sizes
totalSteps(keys, byKey, dataUnitSizes) ==
    LET RECURSIVE Over(_)
        Over(i) == IF i > Len(keys) THEN 0
                   ELSE SumSeq(dataUnitSizes) * Len(byKey[keys[i]]) + Over(i + 1)
    IN  Over(1)

(***************************************************************************)
(* Settings and run configuration.                                         *)
(***************************************************************************)
\* globalSettings as the module initialises it (port left out)
DefaultSettings ==
    [dataUnitSizes |-> Some(<<1, 2, 3, 4, 5, 10, 20, 30, 40, 50, 60, 70, 80, 90, 100,
                              200, 300, 400, 500, 1000>>),
     dataUnitsCount |-> Some(100),
     seriesSize |-> Some(1000),
     seriesCount |-> Some(10),
     delay |-> Some(1),
     forceGC |-> None,
     memoryMeasurementsCount |-> None]

\* the run parameters: the keys of MeasureSettings that a run configuration may override
ParameterNames ==
    {"dataUnitSizes", "dataUnitsCount", "seriesSize", "seriesCount", "delay", "forceGC",
     "memoryMeasurementsCount"}

\* measureSettings: { ...globalSettings, ...options }; options.present are the keys the
\* options object has, options.value what it has under them (None: undefined)
measureSettings(settings, options) ==
    [k \in DOMAIN settings |-> IF k \in options.present THEN options.value[k] ELSE settings[k]]

\* a || b on optional values, `falsy` being 0 or false
Either(a, b, falsy) == IF a = None \/ a = Some(falsy) THEN b ELSE a

\* faulty variant: the overrides applied with || in place of ??
EffectiveParametersUnlessFalsy(config, settings) ==
    [dataUnitSizes |-> Get(Coalesce(config.dataUnitSizes, Coalesce(settings.dataUnitSizes, Some(<<>>)))),
     dataUnitsCount |-> Get(Either(config.dataUnitsCount, Either(settings.dataUnitsCount, Some(100), 0), 0)),
     seriesSize |-> Get(Either(config.seriesSize, Either(settings.seriesSize, Some(1000), 0), 0)),
     seriesCount |-> Get(Either(config.seriesCount, Either(settings.seriesCount, Some(10), 0), 0)),
     delay |-> Get(Either(config.delay, Either(settings.delay, Some(1), 0), 0)),
     forceGC |-> Get(Either(config.forceGC, Either(settings.forceGC, Some(FALSE), FALSE), FALSE)),
     memoryMeasurementsCount |-> Either(config.memoryMeasurementsCount, settings.memoryMeasurementsCount, 0)]

\* "Apply config overrides"
EffectiveParameters(config, settings) ==
    [dataUnitSizes |-> Get(Coalesce(config.dataUnitSizes, Coalesce(settings.dataUnitSizes, Some(<<>>)))),
     dataUnitsCount |-> Get(Coalesce(config.dataUnitsCount, Coalesce(settings.dataUnitsCount, Some(100)))),
     seriesSize |-> Get(Coalesce(config.seriesSize, Coalesce(settings.seriesSize, Some(1000)))),
     seriesCount |-> Get(Coalesce(config.seriesCount, Coalesce(settings.seriesCount, Some(10)))),
     delay |-> Get(Coalesce(config.delay, Coalesce(settings.delay, Some(1)))),
     forceGC |-> Get(Coalesce(config.forceGC, Coalesce(settings.forceGC, Some(FALSE)))),
     memoryMeasurementsCount |-> Coalesce(config.memoryMeasurementsCount, settings.memoryMeasurementsCount)]

\* the selections a run configuration of this model may carry
SelectedPathsChoices ==
    {None, Some(<<>>),
     Some(<< <<Str("A")>> >>),
     Some(<< <<Wildcard, Arr({"S", "b"})>>, <<Str("B"), Str("v")>>, <<Str("t")>> >>)}

\* the dataUnitSizes lists of this model: positive sizes, repeats allowed
DataSizes == {1, 2}
SizeLists == SeqsUpTo(DataSizes, MaxSizes)

\* the run configurations a 'start' message of this model may carry: every size list
\* with every series count; the selections with one series; memory passes on the
\* lists of at most one size
Configs ==
    [selectedPaths : {None},
     dataUnitSizes : {Some(sizes) : sizes \in SizeLists},
     dataUnitsCount : {Some(1)},
     seriesSize : {Some(1)},
     seriesCount : {Some(n) : n \in 0..MaxSeriesCount},
     delay : {None},
     forceGC : {None},
     memoryMeasurementsCount : {None}]
    \cup
    [selectedPaths : SelectedPathsChoices,
     dataUnitSizes : {Some(sizes) : sizes \in SizeLists},
     dataUnitsCount : {Some(1)},
     seriesSize : {Some(1)},
     seriesCount : {Some(1)},
     delay : {None},
     forceGC : {None},
     memoryMeasurementsCount : {None}]
    \cup
    [selectedPaths : {None},
     dataUnitSizes : {Some(sizes) : sizes \in {l \in SizeLists : Len(l) <= 1}},
     dataUnitsCount : {Some(1)},
     seriesSize : {Some(1)},
     seriesCount : {Some(n) : n \in 0..MaxSeriesCount},
     delay : {None},
     forceGC : {Some(TRUE)},
     memoryMeasurementsCount : {Some(1)}]

(***************************************************************************)
(* State.                                                                  *)
(***************************************************************************)
RunIds == {1, 2}
Connections == {"ws1", "ws2"}

VARIABLES
    registry,           \* rootNode, registeredFunctions, customEvaluations, describeContextStack
    globalSettings,     \* what measureSettings has set
    stopRequested,      \* MeasurementEngine.stopRequested of globalEngine
    skippedSubGroups,   \* MeasurementEngine.skippedSubGroups of globalEngine
    activeConnections,  \* ws -> [stopRequested]
    run,                \* run id -> the locals of one call of runMeasurementsOnBackend / runMeasurements
    events,             \* run id -> the calls of onProgress so far
    sent,               \* ws -> the messages sent to the connection so far
    active,             \* the run executing synchronous code, or 0
    args,               \* the arguments of a function called on its own, or None
    returned,           \* what that call returned, or None
    measurer            \* the Measurer under use: its shells and the call in progress

vars == <<registry, globalSettings, stopRequested, skippedSubGroups, activeConnections,
          run, events, sent, active, args, returned, measurer>>

\* no Measurer has been built
NoMeasurer ==
    [label |-> "", given |-> <<>>, shells |-> <<>>, pc |-> "idle", op |-> "", outcome |-> "",
     options |-> [seriesLength |-> 0, seriesCount |-> 0, delay |-> 0],
     i |-> 0, shell |-> 0, measured |-> <<>>, entry |-> <<>>, calls |-> 0]

IdleRun ==
    [pc |-> "idle", ws |-> "", selectedPaths |-> None, parameters |-> EffectiveParameters(
                                      [selectedPaths |-> None, dataUnitSizes |-> Some(<<>>),
                                       dataUnitsCount |-> None, seriesSize |-> None,
                                       seriesCount |-> None, delay |-> None, forceGC |-> None,
                                       memoryMeasurementsCount |-> None], DefaultSettings),
     allPathKeys |-> <<>>, itemsByPathKey |-> <<>>, totalSteps |-> 0, currentStep |-> 0,
     pathKeyIndex |-> 0, dataSizeIndex |-> 0, itemIndex |-> 0,
     allUseSameGenerator |-> FALSE, sharedDataArray |-> None, dataArray |-> <<>>,
     durations |-> <<>>, seriesIndex |-> 0, i |-> 0, memoryUsages |-> None, values |-> <<>>,
     generatorCalls |-> 0, calls |-> <<>>, gcHints |-> 0, inFlight |-> 0,
     stopSent |-> FALSE]

Init ==
    /\ registry \in Registries
    /\ globalSettings = DefaultSettings
    /\ stopRequested = FALSE
    /\ skippedSubGroups = {}
    /\ activeConnections = [ws \in Connections |-> [stopRequested |-> FALSE]]
    /\ run = [r \in RunIds |-> IdleRun]
    /\ events = [r \in RunIds |-> <<>>]
    /\ sent = [ws \in Connections |-> <<>>]
    /\ active = 0
    /\ args = None
    /\ returned = None
    /\ measurer = NoMeasurer

(***************************************************************************)
(* The locals of a run.                                                    *)
(***************************************************************************)
PathKey(r) == run[r].allPathKeys[run[r].pathKeyIndex]
Items(r) == run[r].itemsByPathKey[PathKey(r)]
DataSize(r) == run[r].parameters.dataUnitSizes[run[r].dataSizeIndex]
\* faulty variant: the items of a group taken last to first
ItemReversed(r) == Items(r)[Len(Items(r)) + 1 - run[r].itemIndex]
Item(r) == Items(r)[run[r].itemIndex]

\* dataUnitsCount calls of a generator, the first of them call number `first` of the run
Generated(dataGenerator, dataSize, first, count) ==
    [n \in 1..count |-> [dataGenerator |-> dataGenerator, size |-> dataSize, call |-> first + n - 1]]

\* faulty variant: the index stops at the last datum instead of wrapping around
DataAtClamped(data, i) ==
    IF Len(data) = 0 THEN None ELSE Some(data[IF i < Len(data) THEN i + 1 ELSE Len(data)])
\* data[i % count]: undefined when the array is empty
DataAt(data, i) == IF Len(data) = 0 THEN None ELSE Some(data[(i % Len(data)) + 1])

\* the number an evaluate target returns for a datum: a function of the datum only
FnValue(fn, datum) == 2 * datum.size + datum.call

\* values.reduce((a, b) => a + b, 0) / values.length as the fraction num / den; None is
\* NaN, the 0 / 0 of an empty list
Average(values) ==
    IF Len(values) = 0 THEN None ELSE Some([num |-> SumSeq(values), den |-> Len(values)])
\* Math.min(...values); None is the Infinity of an empty list
Minimum(values) ==
    IF Len(values) = 0 THEN None
    ELSE Some(values[CHOOSE i \in 1..Len(values) : \A j \in 1..Len(values) : values[i] <= values[j]])
\* faulty variant: the first value taken for the greatest
FirstValue(values) == IF Len(values) = 0 THEN None ELSE Some(values[1])
\* Math.max(...values); None is the -Infinity of an empty list
Maximum(values) ==
    IF Len(values) = 0 THEN None
    ELSE Some(values[CHOOSE i \in 1..Len(values) : \A j \in 1..Len(values) : values[i] >= values[j]])

(***************************************************************************)
(* The server's message handlers.                                          *)
(***************************************************************************)
\* runMeasurements from its first line to the head of the measurement loop
NewRun(ws, config) ==
    LET parameters == EffectiveParameters(config, globalSettings)
        unified == unifiedItems(registry, config.selectedPaths)
        keys == allPathKeys(unified)
        byKey == itemsByPathKey(unified)
    IN  [IdleRun EXCEPT !.pc = "group", !.ws = ws, !.parameters = parameters,
                        !.selectedPaths = config.selectedPaths,
                        !.allPathKeys = keys, !.itemsByPathKey = byKey,
                        !.totalSteps = totalSteps(keys, byKey, parameters.dataUnitSizes),
                        !.currentStep = 0, !.pathKeyIndex = 1]

\* faulty variant: a start that clears the stop flag and leaves the skip set as it is
StartMsgKeepingSkips(ws, r, config) ==
    /\ active = 0
    /\ run[r].pc = "idle"
    /\ activeConnections' = [activeConnections EXCEPT ![ws].stopRequested = FALSE]
    /\ stopRequested' = FALSE
    /\ run' = [run EXCEPT ![r] = NewRun(ws, config)]
    /\ active' = r
    /\ UNCHANGED <<measurer, args, returned, registry, globalSettings, skippedSubGroups,
                   events, sent>>
\* faulty variant: a start that leaves the stop flag and the skip set as they are
StartMsgKeepingFlags(ws, r, config) ==
    /\ active = 0
    /\ run[r].pc = "idle"
    /\ activeConnections' = [activeConnections EXCEPT ![ws].stopRequested = FALSE]
    /\ run' = [run EXCEPT ![r] = NewRun(ws, config)]
    /\ active' = r
    /\ UNCHANGED <<measurer, args, returned, registry, globalSettings, stopRequested,
                   skippedSubGroups, events, sent>>
\* ws.on('message') with type 'start': runMeasurementsOnBackend runs synchronously
\* into runMeasurements, which first clears the engine's stop flag and skip set
StartMsg(ws, r, config) ==
    /\ active = 0
    /\ run[r].pc = "idle"
    /\ activeConnections' = [activeConnections EXCEPT ![ws].stopRequested = FALSE]
    /\ stopRequested' = FALSE
    /\ skippedSubGroups' = {}
    /\ run' = [run EXCEPT ![r] = NewRun(ws, config)]
    /\ active' = r
    /\ UNCHANGED <<measurer, args, returned, registry, globalSettings, events, sent>>

\* runMeasurements has been called for r and has not returned or thrown
InProgress(r) == run[r].pc \notin {"idle", "done", "failed"}

\* history: the runs that were in progress when their connection sent 'stop'
NoteStop(ws) ==
    [r \in RunIds |-> IF InProgress(r) /\ run[r].ws = ws
                      THEN [run[r] EXCEPT !.stopSent = TRUE] ELSE run[r]]

\* faulty variant: a stop that marks the connection and leaves the engine alone
StopMsgOfConnection(ws) ==
    /\ active = 0
    /\ activeConnections' = [activeConnections EXCEPT ![ws].stopRequested = TRUE]
    /\ run' = NoteStop(ws)
    /\ UNCHANGED <<measurer, args, returned, registry, globalSettings, stopRequested,
                   skippedSubGroups, events, sent, active>>
\* ws.on('message') with type 'stop'
StopMsg(ws) ==
    /\ active = 0
    /\ activeConnections' = [activeConnections EXCEPT ![ws].stopRequested = TRUE]
    /\ stopRequested' = TRUE
    /\ run' = NoteStop(ws)
    /\ UNCHANGED <<measurer, args, returned, registry, globalSettings, skippedSubGroups, events, sent, active>>

\* ws.on('message') with type 'skip': MeasurementEngine.skipPathKey
SkipMsg(pathKey) ==
    /\ active = 0
    /\ skippedSubGroups' = skippedSubGroups \cup {pathKey}
    /\ UNCHANGED <<measurer, args, returned, registry, globalSettings, stopRequested, activeConnections, run, events,
                   sent, active>>

\* MeasurementEngine.skipSubGroup, called by the embedding program between two tasks
SkipSubGroup(group, subGroup) ==
    /\ active = 0
    /\ skippedSubGroups' = skippedSubGroups \cup {group \o "-" \o subGroup}
    /\ args' = Some([group |-> group, subGroup |-> subGroup])
    /\ UNCHANGED <<measurer, returned, registry, globalSettings, stopRequested,
                   activeConnections, run, events, sent, active>>

(***************************************************************************)
(* runMeasurements: the measurement loop.                                  *)
(***************************************************************************)
engineVars == <<registry, globalSettings, stopRequested, skippedSubGroups, activeConnections,
                args, returned, measurer>>

IsSkipped(pathKey) == pathKey \in skippedSubGroups

\* items.every(item => generator of item === generator of items[0])
AllUseSameGenerator(items) ==
    \A k \in 1..Len(items) : items[k].target.dataGenerator = items[1].target.dataGenerator

\* faulty variant: the first check point without the test of the skip set
GroupCheckWithoutSkip(r) ==
    /\ active = r
    /\ run[r].pc = "group"
    /\ run' = [run EXCEPT ![r] =
            IF @.pathKeyIndex > Len(@.allPathKeys) \/ stopRequested
            THEN [@ EXCEPT !.pc = "return"]
            ELSE IF Len(Items(r)) = 0
            THEN [@ EXCEPT !.pathKeyIndex = @ + 1]
            ELSE [@ EXCEPT !.allUseSameGenerator = AllUseSameGenerator(Items(r)),
                           !.dataSizeIndex = 1, !.pc = "size"]]
    /\ UNCHANGED <<engineVars, events, sent, active>>
\* head of `for (const pathKey of allPathKeys)`: the first check point
GroupCheck(r) ==
    /\ active = r
    /\ run[r].pc = "group"
    /\ run' = [run EXCEPT ![r] =
            IF @.pathKeyIndex > Len(@.allPathKeys) \/ stopRequested
            THEN [@ EXCEPT !.pc = "return"]
            ELSE IF Len(Items(r)) = 0 \/ IsSkipped(PathKey(r))
            THEN [@ EXCEPT !.pathKeyIndex = @ + 1]
            ELSE [@ EXCEPT !.allUseSameGenerator = AllUseSameGenerator(Items(r)),
                           !.dataSizeIndex = 1, !.pc = "size"]]
    /\ UNCHANGED <<engineVars, events, sent, active>>

\* faulty variant: the second check point without the test of the skip set
SizeCheckWithoutSkip(r) ==
    /\ active = r
    /\ run[r].pc = "size"
    /\ run' = [run EXCEPT ![r] =
            IF \/ @.dataSizeIndex > Len(@.parameters.dataUnitSizes)
               \/ stopRequested
            THEN [@ EXCEPT !.pathKeyIndex = @ + 1, !.dataSizeIndex = 0,
                           !.allUseSameGenerator = FALSE, !.pc = "group"]
            ELSE [@ EXCEPT !.pc = "shared"]]
    /\ UNCHANGED <<engineVars, events, sent, active>>
\* faulty variant: the body of the size loop entered before the list is looked at
SizeCheckAfterFirst(r) ==
    /\ active = r
    /\ run[r].pc = "size"
    /\ run' = [run EXCEPT ![r] =
            IF \/ (@.dataSizeIndex > 1 /\ @.dataSizeIndex > Len(@.parameters.dataUnitSizes))
               \/ stopRequested
               \/ IsSkipped(PathKey(r))
            THEN [@ EXCEPT !.pathKeyIndex = @ + 1, !.dataSizeIndex = 0,
                           !.allUseSameGenerator = FALSE, !.pc = "group"]
            ELSE [@ EXCEPT !.pc = "shared"]]
    /\ UNCHANGED <<engineVars, events, sent, active>>
\* head of `for (const dataSize of dataUnitSizes)`: the second check point
SizeCheck(r) ==
    /\ active = r
    /\ run[r].pc = "size"
    /\ run' = [run EXCEPT ![r] =
            IF \/ @.dataSizeIndex > Len(@.parameters.dataUnitSizes)
               \/ stopRequested
               \/ IsSkipped(PathKey(r))
            THEN [@ EXCEPT !.pathKeyIndex = @ + 1, !.dataSizeIndex = 0,
                           !.allUseSameGenerator = FALSE, !.pc = "group"]
            ELSE [@ EXCEPT !.pc = "shared"]]
    /\ UNCHANGED <<engineVars, events, sent, active>>

\* faulty variant: a shared dataset of one datum whatever dataUnitsCount is
GenerateSharedOnce(r) ==
    /\ active = r
    /\ run[r].pc = "shared"
    /\ run' = [run EXCEPT ![r] =
            IF ~@.allUseSameGenerator
            THEN [@ EXCEPT !.sharedDataArray = None, !.itemIndex = 1, !.pc = "item"]
            ELSE [@ EXCEPT !.sharedDataArray =
                               Some(Generated(Items(r)[1].target.dataGenerator, DataSize(r),
                                              run[r].generatorCalls + 1, 1)),
                           !.generatorCalls = @ + 1,
                           !.itemIndex = 1, !.pc = "item"]]
    /\ UNCHANGED <<engineVars, events, sent, active>>
\* "Generate data once if all items use the same generator"; the generator may throw
GenerateShared(r) ==
    /\ active = r
    /\ run[r].pc = "shared"
    /\ \E thrown \in 0..run[r].parameters.dataUnitsCount :
          run' = [run EXCEPT ![r] =
              IF ~@.allUseSameGenerator
              THEN [@ EXCEPT !.sharedDataArray = None, !.itemIndex = 1, !.pc = "item"]
              ELSE IF thrown = 0
              THEN [@ EXCEPT !.sharedDataArray =
                                 Some(Generated(Items(r)[1].target.dataGenerator, DataSize(r),
                                                run[r].generatorCalls + 1,
                                                run[r].parameters.dataUnitsCount)),
                             !.generatorCalls = @ + run[r].parameters.dataUnitsCount,
                             !.itemIndex = 1, !.pc = "item"]
              ELSE [@ EXCEPT !.generatorCalls = @ + thrown, !.pc = "threw"]]
    /\ UNCHANGED <<engineVars, events, sent, active>>

\* faulty variant: the third check point without the test of the stop flag
ItemCheckWithoutStop(r) ==
    /\ active = r
    /\ run[r].pc = "item"
    /\ run' = [run EXCEPT ![r] =
            IF \/ @.itemIndex > Len(Items(r))
               \/ IsSkipped(PathKey(r))
            THEN [@ EXCEPT !.dataSizeIndex = @ + 1, !.itemIndex = 0,
                           !.sharedDataArray = None, !.pc = "size"]
            ELSE IF Item(r).type = "evaluate"
            THEN [@ EXCEPT !.pc = "evaluate"]
            ELSE [@ EXCEPT !.pc = "data"]]
    /\ UNCHANGED <<engineVars, events, sent, active>>
\* head of `for (const item of items)`: the third check point
ItemCheck(r) ==
    /\ active = r
    /\ run[r].pc = "item"
    /\ run' = [run EXCEPT ![r] =
            IF \/ @.itemIndex > Len(Items(r))
               \/ stopRequested
               \/ IsSkipped(PathKey(r))
            THEN [@ EXCEPT !.dataSizeIndex = @ + 1, !.itemIndex = 0,
                           !.sharedDataArray = None, !.pc = "size"]
            ELSE IF Item(r).type = "evaluate"
            THEN [@ EXCEPT !.pc = "evaluate"]
            ELSE [@ EXCEPT !.pc = "data"]]
    /\ UNCHANGED <<engineVars, events, sent, active>>

\* the evaluate branch up to the statistics: one target call per datum, synchronously;
\* `done` data are processed before a generator (inGenerator) or the target throws
Evaluate(r) ==
    /\ active = r
    /\ run[r].pc = "evaluate"
    /\ LET shared == Len(run[r].sharedDataArray) > 0
           count == IF shared THEN Len(Get(run[r].sharedDataArray))
                    ELSE run[r].parameters.dataUnitsCount
           data == IF shared THEN Get(run[r].sharedDataArray)
                   ELSE Generated(Item(r).target.dataGenerator, DataSize(r),
                                  run[r].generatorCalls + 1, count)
       IN  \E done \in 0..count, inGenerator \in BOOLEAN :
              /\ inGenerator => ~shared /\ done < count
              /\ run' = [run EXCEPT ![r] =
                    IF done = count
                    THEN [@ EXCEPT !.values = [n \in 1..count |-> FnValue(Item(r).target.fn, data[n])],
                                   !.dataArray = data,
                                   !.calls = [n \in 1..count |-> [fn |-> Item(r).target.fn,
                                                                  datum |-> Some(data[n])]],
                                   !.generatorCalls = IF shared THEN @ ELSE @ + count,
                                   !.pc = "emit"]
                    ELSE [@ EXCEPT !.generatorCalls =
                                       IF shared THEN @
                                       ELSE IF inGenerator THEN @ + done + 1 ELSE @ + done + 1,
                                   !.calls = [n \in 1..(IF inGenerator THEN done ELSE done + 1) |->
                                                 [fn |-> Item(r).target.fn, datum |-> Some(data[n])]],
                                   !.pc = "threw"]]
    /\ UNCHANGED <<engineVars, events, sent, active>>

\* faulty variant: a dataset generated for every leaf, shared or not
GenerateDataPerLeaf(r) ==
    /\ active = r
    /\ run[r].pc = "data"
    /\ run' = [run EXCEPT ![r] =
            [@ EXCEPT !.dataArray = Generated(Item(r).target.dataGenerator, DataSize(r),
                                              run[r].generatorCalls + 1,
                                              run[r].parameters.dataUnitsCount),
                      !.generatorCalls = @ + run[r].parameters.dataUnitsCount,
                      !.durations = <<>>, !.seriesIndex = 0, !.calls = <<>>,
                      !.pc = "series"]]
    /\ UNCHANGED <<engineVars, events, sent, active>>
\* "Use shared data array if available, otherwise generate new one"
GenerateData(r) ==
    /\ active = r
    /\ run[r].pc = "data"
    /\ \E thrown \in 0..run[r].parameters.dataUnitsCount :
          run' = [run EXCEPT ![r] =
              IF Len(@.sharedDataArray) > 0
              THEN [@ EXCEPT !.dataArray = Get(run[r].sharedDataArray), !.durations = <<>>,
                             !.seriesIndex = 0, !.calls = <<>>, !.pc = "series"]
              ELSE IF thrown = 0
              THEN [@ EXCEPT !.dataArray = Generated(Item(r).target.dataGenerator, DataSize(r),
                                                     run[r].generatorCalls + 1,
                                                     run[r].parameters.dataUnitsCount),
                             !.generatorCalls = @ + run[r].parameters.dataUnitsCount,
                             !.durations = <<>>, !.seriesIndex = 0, !.calls = <<>>,
                             !.pc = "series"]
              ELSE [@ EXCEPT !.generatorCalls = @ + thrown, !.pc = "threw"]]
    /\ UNCHANGED <<engineVars, events, sent, active>>

\* faulty variant: the series loop without the test of the stop flag
SeriesCheckWithoutStop(r) ==
    /\ active = r
    /\ run[r].pc = "series"
    /\ run' = [run EXCEPT ![r] =
            IF @.seriesIndex < @.parameters.seriesCount
            THEN [@ EXCEPT !.gcHints = IF run[r].parameters.forceGC THEN @ + 1 ELSE @,
                           !.i = 0, !.pc = "invoke"]
            ELSE [@ EXCEPT !.pc = "memory"]]
    /\ UNCHANGED <<engineVars, events, sent, active>>
\* head of the series loop: the stop check, then the GC hint
SeriesCheck(r) ==
    /\ active = r
    /\ run[r].pc = "series"
    /\ run' = [run EXCEPT ![r] =
            IF @.seriesIndex < @.parameters.seriesCount /\ ~stopRequested
            THEN [@ EXCEPT !.gcHints = IF run[r].parameters.forceGC THEN @ + 1 ELSE @,
                           !.i = 0, !.pc = "invoke"]
            ELSE [@ EXCEPT !.pc = "memory"]]
    /\ UNCHANGED <<engineVars, events, sent, active>>

\* faulty variant: the promise of an asynchronous target is not awaited
InvokeWithoutAwait(r) ==
    /\ active = r
    /\ run[r].pc = "invoke"
    /\ run[r].i < run[r].parameters.seriesSize
    /\ LET call == [fn |-> Item(r).target.fn, datum |-> DataAt(run[r].dataArray, run[r].i)]
       IN  IF Item(r).target.isAsync
           THEN /\ run' = [run EXCEPT ![r].calls = Append(@, call), ![r].inFlight = @ + 1,
                                      ![r].i = @ + 1]
                /\ active' = r
           ELSE /\ \E ok \in BOOLEAN :
                      run' = [run EXCEPT ![r] =
                                 IF ok THEN [@ EXCEPT !.calls = Append(@, call), !.i = @ + 1]
                                 ELSE [@ EXCEPT !.calls = Append(@, call), !.pc = "threw"]]
                /\ active' = r
    /\ UNCHANGED <<engineVars, events, sent>>

\* measureSeries / measureSeriesAsync: one call fn(data[i % count]); a synchronous
\* target returns or throws, an asynchronous one is awaited; inFlight counts the calls
\* of an asynchronous target whose promise has not settled
Invoke(r) ==
    /\ active = r
    /\ run[r].pc = "invoke"
    /\ run[r].i < run[r].parameters.seriesSize
    /\ LET call == [fn |-> Item(r).target.fn, datum |-> DataAt(run[r].dataArray, run[r].i)]
       IN  IF Item(r).target.isAsync
           THEN /\ run' = [run EXCEPT ![r].calls = Append(@, call), ![r].inFlight = @ + 1,
                                      ![r].pc = "awaitFn"]
                /\ active' = 0
           ELSE /\ \E ok \in BOOLEAN :
                      run' = [run EXCEPT ![r] =
                                 IF ok THEN [@ EXCEPT !.calls = Append(@, call), !.i = @ + 1]
                                 ELSE [@ EXCEPT !.calls = Append(@, call), !.pc = "threw"]]
                /\ active' = r
    /\ UNCHANGED <<engineVars, events, sent>>

\* the awaited promise of an asynchronous target settles
ResumeFn(r) ==
    /\ active = 0
    /\ run[r].pc = "awaitFn"
    /\ \E ok \in BOOLEAN :
          run' = [run EXCEPT ![r] =
                     IF ok THEN [@ EXCEPT !.inFlight = @ - 1, !.i = @ + 1, !.pc = "invoke"]
                     ELSE [@ EXCEPT !.inFlight = @ - 1, !.pc = "threw"]]
    /\ active' = r
    /\ UNCHANGED <<engineVars, events, sent>>

\* the series is over: its duration is one sample; then the run awaits the delay timer
SeriesDone(r) ==
    /\ active = r
    /\ run[r].pc = "invoke"
    /\ run[r].i >= run[r].parameters.seriesSize
    /\ run' = [run EXCEPT ![r].durations = Append(@, [series |-> run[r].seriesIndex,
                                                         calls |-> run[r].i]),
                          ![r].pc = "delay"]
    /\ active' = 0
    /\ UNCHANGED <<engineVars, events, sent>>

\* faulty variant: the series counter not advanced after the delay
TimerFiresWithoutAdvance(r) ==
    /\ active = 0
    /\ run[r].pc = "delay"
    /\ run' = [run EXCEPT ![r].durations = <<>>, ![r].calls = <<>>, ![r].pc = "series"]
    /\ active' = r
    /\ UNCHANGED <<engineVars, events, sent>>
\* setTimeout(resolve, delay) fires
TimerFires(r) ==
    /\ active = 0
    /\ run[r].pc = "delay"
    /\ run' = [run EXCEPT ![r].seriesIndex = @ + 1, ![r].pc = "series"]
    /\ active' = r
    /\ UNCHANGED <<engineVars, events, sent>>

\* "Measure memory only if memoryMeasurementsCount is specified"
MemoryCheck(r) ==
    /\ active = r
    /\ run[r].pc = "memory"
    /\ run' = [run EXCEPT ![r] =
            IF Len(@.parameters.memoryMeasurementsCount) > 0
               /\ Get(@.parameters.memoryMeasurementsCount) > 0
            THEN [@ EXCEPT !.memoryUsages = Some(<<>>), !.i = 0, !.pc = "memInvoke"]
            ELSE [@ EXCEPT !.memoryUsages = None, !.pc = "emit"]]
    /\ UNCHANGED <<engineVars, events, sent, active>>

\* the values the memory probe getMemoryUsage() may read
MemoryReadings == {0, 1}
\* faulty variant: the difference of the two readings as it is
MemoryDeltaSigned(startMemory, endMemory) == endMemory - startMemory
\* Math.max(0, endMemory - startMemory)
MemoryDelta(startMemory, endMemory) ==
    IF endMemory - startMemory > 0 THEN endMemory - startMemory ELSE 0

\* measureSeriesMemory / measureSeriesMemoryAsync: GC hint, probe, one call, probe
MemInvoke(r) ==
    /\ active = r
    /\ run[r].pc = "memInvoke"
    /\ LET call == [fn |-> Item(r).target.fn, datum |-> DataAt(run[r].dataArray, run[r].i)]
       IN  IF run[r].i >= Get(run[r].parameters.memoryMeasurementsCount)
           THEN /\ run' = [run EXCEPT ![r].pc = "emit"]
                /\ active' = r
           ELSE IF Item(r).target.isAsync
           THEN /\ run' = [run EXCEPT ![r].calls = Append(@, call), ![r].gcHints = @ + 1,
                                      ![r].inFlight = @ + 1, ![r].pc = "awaitMemFn"]
                /\ active' = 0
           ELSE /\ \E ok \in BOOLEAN, startMemory \in MemoryReadings, endMemory \in MemoryReadings :
                      run' = [run EXCEPT ![r] =
                                 IF ok THEN [@ EXCEPT !.calls = Append(@, call),
                                                      !.gcHints = @ + 1,
                                                      !.memoryUsages = Some(Append(Get(@),
                                                          MemoryDelta(startMemory, endMemory))),
                                                      !.i = @ + 1]
                                 ELSE [@ EXCEPT !.calls = Append(@, call), !.gcHints = @ + 1,
                                                !.pc = "threw"]]
                /\ active' = r
    /\ UNCHANGED <<engineVars, events, sent>>

\* the awaited promise of the memory pass settles; the reading taken before the call
\* and the one taken now give the sample
ResumeMemFn(r) ==
    /\ active = 0
    /\ run[r].pc = "awaitMemFn"
    /\ \E ok \in BOOLEAN, startMemory \in MemoryReadings, endMemory \in MemoryReadings :
          run' = [run EXCEPT ![r] =
                     IF ok THEN [@ EXCEPT !.memoryUsages = Some(Append(Get(@),
                                              MemoryDelta(startMemory, endMemory))),
                                          !.inFlight = @ - 1, !.i = @ + 1, !.pc = "memInvoke"]
                     ELSE [@ EXCEPT !.inFlight = @ - 1, !.pc = "threw"]]
    /\ active' = r
    /\ UNCHANGED <<engineVars, events, sent>>

\* Math.round((currentStep / totalSteps) * 100), over the rationals
Progress(currentStep, steps) ==
    IF steps = 0 THEN -1 ELSE RoundDiv(100 * currentStep, steps)

\* faulty variant: every progress event carries a result
ProgressEventWithResult(r) ==
    [path |-> Item(r).target.path,
     title |-> Item(r).title,
     dataSize |-> DataSize(r),
     progress |-> Progress(run[r].currentStep + DataSize(r), run[r].totalSteps),
     kind |-> IF Item(r).type = "evaluate" THEN "customResult" ELSE "result",
     samples |-> IF Item(r).type = "evaluate" THEN Len(run[r].values) ELSE Len(run[r].durations),
     memory |-> IF Len(run[r].memoryUsages) = 0 THEN None ELSE Some(Len(Get(run[r].memoryUsages))),
     result |-> Some([series |-> run[r].durations, memory |-> run[r].memoryUsages]),
     customResult |-> IF Item(r).type = "evaluate"
                      THEN Some([values |-> run[r].values, avg |-> Average(run[r].values),
                                 min |-> Minimum(run[r].values), max |-> Maximum(run[r].values)])
                      ELSE None,
     data |-> run[r].dataArray,
     calls |-> run[r].calls,
     generatorCalls |-> run[r].generatorCalls,
     pathKeyIndex |-> run[r].pathKeyIndex,
     dataSizeIndex |-> run[r].dataSizeIndex,
     itemIndex |-> run[r].itemIndex,
     stopped |-> stopRequested]

\* the progress event of the leaf just measured or evaluated; pathKeyIndex, dataSizeIndex
\* and itemIndex record the loop position it was emitted at, data and calls the dataset
\* the leaf used and the target calls made for it, generatorCalls the generator calls of
\* the run so far
ProgressEvent(r) ==
    [path |-> Item(r).target.path,
     title |-> Item(r).title,
     dataSize |-> DataSize(r),
     progress |-> Progress(run[r].currentStep + DataSize(r), run[r].totalSteps),
     kind |-> IF Item(r).type = "evaluate" THEN "customResult" ELSE "result",
     samples |-> IF Item(r).type = "evaluate" THEN Len(run[r].values) ELSE Len(run[r].durations),
     memory |-> IF Len(run[r].memoryUsages) = 0 THEN None ELSE Some(Len(Get(run[r].memoryUsages))),
     result |-> IF Item(r).type = "evaluate" THEN None
                ELSE Some([series |-> run[r].durations, memory |-> run[r].memoryUsages]),
     customResult |-> IF Item(r).type = "evaluate"
                      THEN Some([values |-> run[r].values, avg |-> Average(run[r].values),
                                 min |-> Minimum(run[r].values), max |-> Maximum(run[r].values)])
                      ELSE None,
     data |-> run[r].dataArray,
     calls |-> run[r].calls,
     generatorCalls |-> run[r].generatorCalls,
     pathKeyIndex |-> run[r].pathKeyIndex,
     dataSizeIndex |-> run[r].dataSizeIndex,
     itemIndex |-> run[r].itemIndex,
     stopped |-> stopRequested]

\* the statistics, `currentStep += dataSize` and onProgress(...); the callback of
\* runMeasurementsOnBackend stops the engine instead of sending when the connection
\* has asked to stop
\* faulty variant: a callback that sends whatever the connection asked for
EmitAfterStop(r) ==
    /\ active = r
    /\ run[r].pc = "emit"
    /\ events' = [events EXCEPT ![r] = Append(@, ProgressEvent(r))]
    /\ sent' = [sent EXCEPT ![run[r].ws] =
                  Append(@, [type |-> IF ProgressEvent(r).customResult # None
                                      THEN "customProgress" ELSE "progress",
                             run |-> r, progress |-> ProgressEvent(r)])]
    /\ run' = [run EXCEPT ![r].currentStep = @ + DataSize(r),
                          ![r].itemIndex = @ + 1,
                          ![r].dataArray = <<>>, ![r].durations = <<>>, ![r].values = <<>>,
                          ![r].memoryUsages = None, ![r].calls = <<>>,
                          ![r].seriesIndex = 0, ![r].i = 0,
                          ![r].pc = "item"]
    /\ UNCHANGED <<measurer, args, returned, registry, globalSettings, stopRequested,
                   skippedSubGroups, activeConnections, active>>

Emit(r) ==
    /\ active = r
    /\ run[r].pc = "emit"
    /\ events' = [events EXCEPT ![r] = Append(@, ProgressEvent(r))]
    /\ IF activeConnections[run[r].ws].stopRequested
       THEN /\ stopRequested' = TRUE
            /\ sent' = sent
       ELSE /\ stopRequested' = stopRequested
            /\ sent' = [sent EXCEPT ![run[r].ws] =
                          Append(@, [type |-> IF ProgressEvent(r).customResult # None
                                              THEN "customProgress" ELSE "progress",
                                     run |-> r, progress |-> ProgressEvent(r)])]
    /\ run' = [run EXCEPT ![r].currentStep = @ + DataSize(r),
                          ![r].itemIndex = @ + 1,
                          ![r].dataArray = <<>>, ![r].durations = <<>>, ![r].values = <<>>,
                          ![r].memoryUsages = None, ![r].calls = <<>>,
                          ![r].seriesIndex = 0, ![r].i = 0,
                          ![r].pc = "item"]
    /\ UNCHANGED <<measurer, args, returned, registry, globalSettings, skippedSubGroups, activeConnections, active>>

(***************************************************************************)
(* runMeasurementsOnBackend after runMeasurements.                         *)
(***************************************************************************)
\* faulty variant: no 'complete' message for a run that was stopped
CompleteUnlessStopped(r) ==
    /\ active = r
    /\ run[r].pc = "return"
    /\ sent' = [sent EXCEPT ![run[r].ws] =
                    IF stopRequested THEN @ ELSE Append(@, [type |-> "complete", run |-> r])]
    /\ run' = [run EXCEPT ![r].pc = "done"]
    /\ active' = 0
    /\ UNCHANGED <<engineVars, events>>
\* runMeasurements returned: "Send complete after all measurements are done"
Complete(r) ==
    /\ active = r
    /\ run[r].pc = "return"
    /\ sent' = [sent EXCEPT ![run[r].ws] = Append(@, [type |-> "complete", run |-> r])]
    /\ run' = [run EXCEPT ![r].pc = "done"]
    /\ active' = 0
    /\ UNCHANGED <<engineVars, events>>

\* faulty variant: a catch block that goes on to the 'complete' message
CatchThenComplete(r) ==
    /\ active = r
    /\ run[r].pc = "threw"
    /\ sent' = [sent EXCEPT ![run[r].ws] =
                    @ \o <<[type |-> "error", run |-> r], [type |-> "complete", run |-> r]>>]
    /\ run' = [run EXCEPT ![r].pc = "failed"]
    /\ active' = 0
    /\ UNCHANGED <<engineVars, events>>
\* runMeasurements threw: the catch block sends one error message
Catch(r) ==
    /\ active = r
    /\ run[r].pc = "threw"
    /\ sent' = [sent EXCEPT ![run[r].ws] = Append(@, [type |-> "error", run |-> r])]
    /\ run' = [run EXCEPT ![r].pc = "failed"]
    /\ active' = 0
    /\ UNCHANGED <<engineVars, events>>

(***************************************************************************)
(* One run on one connection, with stop and skip messages arriving         *)
(* whenever the event loop is idle.                                        *)
(***************************************************************************)
\* the path keys a skip message of this model may name
SkipKeys == {keyPath(registry.nodes[n].path) :
                n \in {m \in 1..Len(registry.nodes) : registry.nodes[m].type # "describe"}}

Step(r) ==
    \/ GroupCheck(r)
    \/ SizeCheck(r)
    \/ GenerateShared(r)
    \/ ItemCheck(r)
    \/ Evaluate(r)
    \/ GenerateData(r)
    \/ SeriesCheck(r)
    \/ Invoke(r)
    \/ ResumeFn(r)
    \/ SeriesDone(r)
    \/ TimerFires(r)
    \/ MemoryCheck(r)
    \/ MemInvoke(r)
    \/ ResumeMemFn(r)
    \/ Emit(r)
    \/ Complete(r)
    \/ Catch(r)

\* the run has ended: its complete or error message is sent
Ended(r) == run[r].pc \in {"done", "failed"}

\* a stop message from the client while its run has not ended
ClientStop == ~Ended(1) /\ StopMsg("ws1")

\* a skip message from the client while its run has not ended
ClientSkip == ~Ended(1) /\ \E pathKey \in SkipKeys : SkipMsg(pathKey)

ClientStart == \E config \in Configs : StartMsg("ws1", 1, config)

Next ==
    \/ ClientStart
    \/ ClientStop
    \/ ClientSkip
    \/ Step(1)

Spec == Init /\ [][Next]_vars

(***************************************************************************)
(* One run with the sampler's parameters varied: datasets of 0 to          *)
(* MaxDataUnits data, series of 0 to MaxSeriesSize calls, memory passes;   *)
(* stop messages arrive whenever the event loop is idle.                   *)
(***************************************************************************)
SamplerConfigs ==
    [selectedPaths : {None},
     dataUnitSizes : {Some(<<1>>), Some(<<2, 1>>)},
     dataUnitsCount : {Some(n) : n \in 0..MaxDataUnits},
     seriesSize : {Some(n) : n \in 0..MaxSeriesSize},
     seriesCount : {Some(n) : n \in 0..MaxSeriesCount},
     delay : {None},
     forceGC : {None},
     memoryMeasurementsCount : {None}]
    \cup
    [selectedPaths : {None},
     dataUnitSizes : {Some(<<1>>)},
     dataUnitsCount : {Some(1), Some(2)},
     seriesSize : {Some(1)},
     seriesCount : {Some(1), Some(MaxSeriesCount)},
     delay : {None},
     forceGC : {Some(TRUE)},
     memoryMeasurementsCount : {Some(n) : n \in 0..MaxSeriesCount}]

SamplerStart == \E config \in SamplerConfigs : StartMsg("ws1", 1, config)

SamplerNext == SamplerStart \/ ClientStop \/ Step(1)

SamplerSpec == Init /\ [][SamplerNext]_vars

\* the (group, subGroup) pairs under which a leaf is registered
SubGroups ==
    {<<registry.nodes[n].path[1], registry.nodes[n].path[2]>> :
        n \in {m \in 1..Len(registry.nodes) :
                  registry.nodes[m].type # "describe" /\ Len(registry.nodes[m].path) = 3}}

\* skipSubGroup called while the run is suspended
EngineSkipSubGroup ==
    /\ run[1].pc # "idle"
    /\ ~Ended(1)
    /\ \E pair \in SubGroups : SkipSubGroup(pair[1], pair[2])

\* one run of one size and one series, with or without a memory pass, that the client or
\* the embedding program may cut short by skipping
OneSeriesConfigs ==
    {c \in SamplerConfigs : /\ c.dataUnitSizes = Some(<<1>>)
                            /\ c.dataUnitsCount = Some(1)
                            /\ c.seriesSize = Some(1)
                            /\ c.seriesCount = Some(1)
                            /\ c.memoryMeasurementsCount \in {None, Some(1)}}

SkipStart == \E config \in OneSeriesConfigs : StartMsg("ws1", 1, config)

SkipNext == SkipStart \/ EngineSkipSubGroup \/ ClientSkip \/ Step(1)

SkipSpec == Init /\ [][SkipNext]_vars

(***************************************************************************)
(* One run after another on one connection: a 'start' message once the     *)
(* run before has ended, whose locals are then dead, so that the new run   *)
(* takes their place.  Stop messages of both connections and skip messages *)
(* arrive whenever the event loop is idle: before the first run, during a  *)
(* run, between two runs.                                                  *)
(***************************************************************************)
\* ws.on('message') with type 'start', after an earlier run; every run that has ended
\* has sent its 'complete' or its 'error' message
NextStart ==
    /\ active = 0
    /\ Ended(1)
    /\ Len(sent["ws1"]) <= MaxRestarts
    /\ \E config \in OneSeriesConfigs :
           run' = [run EXCEPT ![1] = NewRun("ws1", config)]
    /\ activeConnections' = [activeConnections EXCEPT !["ws1"].stopRequested = FALSE]
    /\ stopRequested' = FALSE
    /\ skippedSubGroups' = {}
    /\ events' = [events EXCEPT ![1] = <<>>]
    /\ active' = 1
    /\ UNCHANGED <<measurer, args, returned, registry, globalSettings, sent>>

RerunNext ==
    \/ SkipStart
    \/ NextStart
    \/ \E ws \in Connections : StopMsg(ws)
    \/ \E pathKey \in SkipKeys : SkipMsg(pathKey)
    \/ Step(1)

RerunSpec == Init /\ [][RerunNext]_vars

(***************************************************************************)
(* Two runs at once: the second connection sends 'start' while the run of  *)
(* the first is suspended.  Both calls of runMeasurements work on the one  *)
(* engine and take turns at their awaits; stop messages of both            *)
(* connections and skip messages arrive whenever the event loop is idle.   *)
(***************************************************************************)
\* the runs of this specification: one size, one series, no memory pass
PlainConfigs == {c \in OneSeriesConfigs : c.memoryMeasurementsCount = None}

SecondStart ==
    /\ InProgress(1)
    /\ \E ws \in Connections, config \in PlainConfigs : StartMsg(ws, 2, config)

\* the steps of a run that takes no memory pass
ConcurrentNext ==
    \/ \E config \in PlainConfigs : StartMsg("ws1", 1, config)
    \/ SecondStart
    \/ InProgress(1) /\ \E ws \in Connections : StopMsg(ws)
    \/ InProgress(1) /\ \E pathKey \in SkipKeys : SkipMsg(pathKey)
    \/ \E r \in RunIds :
          \/ GroupCheck(r)
          \/ SizeCheck(r)
          \/ GenerateShared(r)
          \/ ItemCheck(r)
          \/ Evaluate(r)
          \/ GenerateData(r)
          \/ SeriesCheck(r)
          \/ Invoke(r)
          \/ ResumeFn(r)
          \/ SeriesDone(r)
          \/ TimerFires(r)
          \/ MemoryCheck(r)
          \/ Emit(r)
          \/ Complete(r)
          \/ Catch(r)

ConcurrentSpec == Init /\ [][ConcurrentNext]_vars

\* the same with every awaited call settling and every timer firing: a step of the run
\* that is possible is taken in the end
FairSpec == Init /\ [][RerunNext]_vars /\ WF_vars(Step(1))

\* the same runs over the hierarchies none of whose titles holds the separator
SeparatorFreeInit ==
    /\ registry \in {RegistryShared, RegistryNested, RegistryTopLevel, RegistryEdged}
    /\ globalSettings = DefaultSettings
    /\ stopRequested = FALSE
    /\ skippedSubGroups = {}
    /\ activeConnections = [ws \in Connections |-> [stopRequested |-> FALSE]]
    /\ run = [r \in RunIds |-> IdleRun]
    /\ events = [r \in RunIds |-> <<>>]
    /\ sent = [ws \in Connections |-> <<>>]
    /\ active = 0
    /\ args = None
    /\ returned = None
    /\ measurer = NoMeasurer

SeparatorFreeSpec == SeparatorFreeInit /\ [][RerunNext]_vars

(***************************************************************************)
(* The Path Matcher called on its own, on every path and pattern of at     *)
(* most MaxPathLen levels.                                                 *)
(***************************************************************************)
MatcherTitles == {"A", "B"}
MatcherSegments == {Wildcard} \cup {Str(t) : t \in MatcherTitles}
                       \cup {Arr(S) : S \in SUBSET MatcherTitles}

\* nothing is registered and nothing runs
MatcherInit ==
    /\ registry = EmptyRegistry
    /\ globalSettings = DefaultSettings
    /\ stopRequested = FALSE
    /\ skippedSubGroups = {}
    /\ activeConnections = [ws \in Connections |-> [stopRequested |-> FALSE]]
    /\ run = [r \in RunIds |-> IdleRun]
    /\ events = [r \in RunIds |-> <<>>]
    /\ sent = [ws \in Connections |-> <<>>]
    /\ active = 0
    /\ args = None
    /\ returned = None
    /\ measurer = NoMeasurer

\* the arguments of the call are chosen
MatcherArgs ==
    /\ args = None
    /\ \E path \in SeqsUpTo(MatcherTitles, MaxPathLen),
          pattern \in SeqsUpTo(MatcherSegments, MaxPathLen) :
          args' = Some([path |-> path, pattern |-> pattern])
    /\ UNCHANGED <<measurer, registry, globalSettings, stopRequested, skippedSubGroups,
                   activeConnections, run, events, sent, active, returned>>

\* matchesPathPattern(path, pattern) returns
MatcherCall ==
    /\ args # None
    /\ returned = None
    /\ returned' = Some(matchesPathPattern(Get(args).path, Get(args).pattern))
    /\ UNCHANGED <<measurer, registry, globalSettings, stopRequested, skippedSubGroups,
                   activeConnections, run, events, sent, active, args>>

MatcherNext == MatcherArgs \/ MatcherCall

MatcherSpec == MatcherInit /\ [][MatcherNext]_vars

(***************************************************************************)
(* The statistics of a measure result, computed on numbers as the code     *)
(* computes them: binary floating point, every sum and quotient rounded to *)
(* the nearest number of Precision significant bits, ties to the even one. *)
(* A number is [m, e] for m * 2^e with 2^(Precision-1) <= m < 2^Precision, *)
(* or Zero, Infinity or NaN.  The numbers here are never negative.         *)
(***************************************************************************)
RECURSIVE Pow2(_)
Pow2(k) == IF k <= 0 THEN 1 ELSE 2 * Pow2(k - 1)

Zero == [m |-> 0, e |-> 0]
Infinity == [m |-> -1, e |-> 0]
NaN == [m |-> -2, e |-> 0]

RECURSIVE RoundTo(_, _, _)
\* the number nearest to (n / d) * 2^e, for integers n > 0 and d > 0
RoundTo(n, d, e) ==
    IF n >= d * Pow2(Precision) THEN RoundTo(n, 2 * d, e + 1)
    ELSE IF n < d * Pow2(Precision - 1) THEN RoundTo(2 * n, d, e - 1)
    ELSE LET q == n \div d
             r == n % d
             up == 2 * r > d \/ (2 * r = d /\ q % 2 = 1)
         IN  IF ~up THEN [m |-> q, e |-> e]
             ELSE IF q + 1 = Pow2(Precision) THEN [m |-> Pow2(Precision - 1), e |-> e + 1]
             ELSE [m |-> q + 1, e |-> e]

\* the number literal k, k / 10 for the durations
FromInt(k) == IF k = 0 THEN Zero ELSE RoundTo(k, 1, 0)
Tenths(k) == IF k = 0 THEN Zero ELSE RoundTo(k, 10, 0)

\* a + b
FlAdd(a, b) ==
    IF a = NaN \/ b = NaN THEN NaN
    ELSE IF a = Infinity \/ b = Infinity THEN Infinity
    ELSE IF a = Zero THEN b
    ELSE IF b = Zero THEN a
    ELSE LET low == IF a.e < b.e THEN a.e ELSE b.e
         IN  RoundTo(a.m * Pow2(a.e - low) + b.m * Pow2(b.e - low), 1, low)

\* a / b
FlDiv(a, b) ==
    IF a = NaN \/ b = NaN THEN NaN
    ELSE IF a = Infinity THEN (IF b = Infinity THEN NaN ELSE Infinity)
    ELSE IF b = Infinity THEN Zero
    ELSE IF b = Zero THEN (IF a = Zero THEN NaN ELSE Infinity)
    ELSE IF a = Zero THEN Zero
    ELSE RoundTo(a.m, b.m, a.e - b.e)

\* a <= b; false when one of them is NaN
FlLeq(a, b) ==
    IF a = NaN \/ b = NaN THEN FALSE
    ELSE IF b = Infinity THEN TRUE
    ELSE IF a = Infinity THEN FALSE
    ELSE IF a = Zero THEN TRUE
    ELSE IF b = Zero THEN FALSE
    ELSE a.e < b.e \/ (a.e = b.e /\ a.m <= b.m)

RECURSIVE FlSum(_)
\* durations.reduce((a, b) => a + b, 0)
FlSum(xs) == IF Len(xs) = 0 THEN Zero ELSE FlAdd(FlSum(Front(xs)), Last(xs))

\* Math.min(...durations) and Math.max(...durations) of a list that is not empty
FlMin(xs) == xs[CHOOSE i \in 1..Len(xs) : \A j \in 1..Len(xs) : FlLeq(xs[i], xs[j])]
FlMax(xs) == xs[CHOOSE i \in 1..Len(xs) : \A j \in 1..Len(xs) : FlLeq(xs[j], xs[i])]

\* faulty variant: the least duration paired with the least throughput
StatisticsNotInverted(durations, seriesSize) ==
    LET durationAvg == FlDiv(FlDiv(FlSum(durations), FromInt(Len(durations))), FromInt(seriesSize))
        durationMin == FlDiv(FlMin(durations), FromInt(seriesSize))
        durationMax == FlDiv(FlMax(durations), FromInt(seriesSize))
    IN  [series |-> [i \in 1..Len(durations) |-> FlDiv(FromInt(1000), durations[i])],
         avg |-> FlDiv(FromInt(1000), durationAvg),
         min |-> FlDiv(FromInt(1000), durationMin),
         max |-> FlDiv(FromInt(1000), durationMax),
         duration |-> durationAvg, durationMin |-> durationMin, durationMax |-> durationMax]

\* "Calculate statistics for duration (per single operation)" and "for opsPerSecond"
Statistics(durations, seriesSize) ==
    LET durationAvg == FlDiv(FlDiv(FlSum(durations), FromInt(Len(durations))), FromInt(seriesSize))
        durationMin == FlDiv(FlMin(durations), FromInt(seriesSize))
        durationMax == FlDiv(FlMax(durations), FromInt(seriesSize))
    IN  [series |-> [i \in 1..Len(durations) |-> FlDiv(FromInt(1000), durations[i])],
         avg |-> FlDiv(FromInt(1000), durationAvg),
         min |-> FlDiv(FromInt(1000), durationMax),
         max |-> FlDiv(FromInt(1000), durationMin),
         duration |-> durationAvg, durationMin |-> durationMin, durationMax |-> durationMax]

\* the durations a series may take: none at all or some tenths of a millisecond
DurationReadings == {Tenths(k) : k \in 0..MaxTenths}

\* the durations and the seriesSize of one measure leaf are chosen
ReducerArgs ==
    /\ args = None
    /\ \E durations \in SeqsUpTo(DurationReadings, MaxSamples), seriesSize \in 0..MaxSeriesSize :
          /\ durations # <<>>
          /\ args' = Some([durations |-> durations, seriesSize |-> seriesSize])
    /\ UNCHANGED <<measurer, registry, globalSettings, stopRequested, skippedSubGroups,
                   activeConnections, run, events, sent, active, returned>>

\* the statistics of the result are computed
ReducerCall ==
    /\ args # None
    /\ returned = None
    /\ returned' = Some(Statistics(Get(args).durations, Get(args).seriesSize))
    /\ UNCHANGED <<measurer, registry, globalSettings, stopRequested, skippedSubGroups,
                   activeConnections, run, events, sent, active, args>>

ReducerNext == ReducerArgs \/ ReducerCall

ReducerSpec == MatcherInit /\ [][ReducerNext]_vars

(***************************************************************************)
(* The registration calls on their own, as a test file makes them while it *)
(* is loaded: describe (its runner entered, and left later), measure,      *)
(* measureAsync and evaluate, with titles that repeat at every level.  A   *)
(* call that throws leaves `returned` at "threw"; the test file may catch  *)
(* the error and go on.                                                    *)
(***************************************************************************)
GroupTitles == {"A", "B"}
LeafTitles == {"A", "A > B"}

\* a title for which !title holds
NoTitle == ""

\* an argument for which typeof is not 'function'
NotAFunction == ""

\* the argument pairs (fn, dataGenerator) of measure, measureAsync and evaluate
FunctionArguments == {<<"f", "g">>, <<NotAFunction, "g">>, <<"f", NotAFunction>>}

\* describe(title, runner) up to the call of runner
CallDescribe ==
    /\ Len(registry.nodes) <= MaxNodes
    /\ \E title \in GroupTitles \cup {NoTitle}, runner \in {"runner", NotAFunction} :
          /\ args' = Some([op |-> "describe", title |-> title, fn |-> runner,
                           dataGenerator |-> NotAFunction])
          /\ returned' = Some(IF runner = NotAFunction \/ DescribeThrows(registry, title)
                              THEN "threw" ELSE "ok")
          /\ registry' = IF runner = NotAFunction THEN registry
                         ELSE DescribeEnter(registry, title)
    /\ UNCHANGED <<measurer, globalSettings, stopRequested, skippedSubGroups, activeConnections,
                   run, events, sent, active>>

\* faulty variant: describe without try/finally, a throwing runner leaves its node on the stack
LeaveDescribeWithoutFinally ==
    /\ Len(registry.describeContextStack) > 1
    /\ \E outcome \in {"returned", "runnerThrew"} :
          /\ args' = Some([op |-> "describe", title |-> registry.nodes[CurrentContext(registry)].title,
                           fn |-> "runner", dataGenerator |-> NotAFunction])
          /\ returned' = Some(outcome)
          /\ registry' = IF outcome = "returned" THEN DescribeExit(registry) ELSE registry
    /\ UNCHANGED <<measurer, globalSettings, stopRequested, skippedSubGroups,
                   activeConnections, run, events, sent, active>>

\* the runner of the innermost describe returns or throws: the finally block
LeaveDescribe ==
    /\ Len(registry.describeContextStack) > 1
    /\ \E outcome \in {"returned", "runnerThrew"} :
          /\ args' = Some([op |-> "describe", title |-> registry.nodes[CurrentContext(registry)].title,
                           fn |-> "runner", dataGenerator |-> NotAFunction])
          /\ returned' = Some(outcome)
          /\ registry' = DescribeExit(registry)
    /\ UNCHANGED <<measurer, globalSettings, stopRequested, skippedSubGroups,
                   activeConnections, run, events, sent, active>>

\* measure(title, fn, dataGenerator) and measureAsync(title, fn, dataGenerator)
CallMeasure ==
    /\ Len(registry.nodes) <= MaxNodes
    /\ \E title \in LeafTitles \cup {NoTitle}, given \in FunctionArguments, isAsync \in BOOLEAN :
          /\ args' = Some([op |-> IF isAsync THEN "measureAsync" ELSE "measure", title |-> title,
                           fn |-> given[1], dataGenerator |-> given[2]])
          /\ returned' = Some(IF NotAFunction \in {given[1], given[2]} \/ MeasureThrows(registry, title)
                              THEN "threw" ELSE "ok")
          /\ registry' = IF NotAFunction \in {given[1], given[2]} THEN registry
                         ELSE RegisterMeasure(registry, title, given[1], given[2], isAsync)
    /\ UNCHANGED <<measurer, globalSettings, stopRequested, skippedSubGroups, activeConnections,
                   run, events, sent, active>>

\* evaluate(customChart, title, fn, dataGenerator)
CallEvaluate ==
    /\ Len(registry.nodes) <= MaxNodes
    /\ \E title \in LeafTitles \cup {NoTitle}, given \in FunctionArguments :
          /\ args' = Some([op |-> "evaluate", title |-> title,
                           fn |-> given[1], dataGenerator |-> given[2]])
          /\ returned' = Some(IF NotAFunction \in {given[1], given[2]} \/ EvaluateThrows(registry, title)
                              THEN "threw" ELSE "ok")
          /\ registry' = IF NotAFunction \in {given[1], given[2]} THEN registry
                         ELSE RegisterEvaluate(registry, title, given[1], given[2])
    /\ UNCHANGED <<measurer, globalSettings, stopRequested, skippedSubGroups, activeConnections,
                   run, events, sent, active>>

RegistrationNext == CallDescribe \/ LeaveDescribe \/ CallMeasure \/ CallEvaluate

RegistrationSpec == MatcherInit /\ [][RegistrationNext]_vars

(***************************************************************************)
(* The run parameters on their own: measureSettings called a few times,    *)
(* then the overrides of runMeasurements applied to a run configuration.   *)
(* `args` keeps what measureSettings was last given for each parameter,    *)
(* the number of its calls, and the run configuration last resolved.       *)
(***************************************************************************)
\* the values a parameter is given here: 0, false or the empty list, and one other
EmptyValue(k) == IF k = "dataUnitSizes" THEN <<>> ELSE IF k = "forceGC" THEN FALSE ELSE 0
OtherValue(k) == IF k = "dataUnitSizes" THEN <<1>> ELSE IF k = "forceGC" THEN TRUE ELSE 2
ParameterValues(k) == {EmptyValue(k), OtherValue(k)}

NothingGiven == [k \in ParameterNames |-> None]

\* a key with undefined or a value under it, no key, or every key
SettingsOptions ==
    {[present |-> {}, value |-> NothingGiven]}
    \cup UNION {{[present |-> {k}, value |-> [NothingGiven EXCEPT ![k] = x]] :
                    x \in {None} \cup {Some(v) : v \in ParameterValues(k)}} : k \in ParameterNames}
    \cup {[present |-> ParameterNames,
           value |-> [k \in ParameterNames |-> Some(OtherValue(k))]]}

\* run configurations without a selection: one parameter supplied, none, or every one
ParameterConfigs ==
    LET AsConfig(given) == [k \in ParameterNames \cup {"selectedPaths"} |->
                               IF k = "selectedPaths" THEN None ELSE given[k]]
    IN  {AsConfig(NothingGiven)}
        \cup UNION {{AsConfig([NothingGiven EXCEPT ![k] = Some(v)]) : v \in ParameterValues(k)} :
                        k \in ParameterNames}
        \cup {AsConfig([k \in ParameterNames |-> Some(EmptyValue(k))])}

LastGiven == IF args = None THEN NothingGiven ELSE Get(args).set

SettingsCalls == IF args = None THEN 0 ELSE Get(args).calls

CallMeasureSettings ==
    /\ SettingsCalls < MaxCalls
    /\ \E options \in SettingsOptions :
           /\ globalSettings' = measureSettings(globalSettings, options)
           /\ args' = Some([set |-> [k \in ParameterNames |->
                                        IF k \in options.present THEN options.value[k]
                                        ELSE LastGiven[k]],
                            calls |-> SettingsCalls + 1, config |-> None])
    /\ returned' = None
    /\ UNCHANGED <<measurer, registry, stopRequested, skippedSubGroups, activeConnections,
                   run, events, sent, active>>

\* getSettings() and the overrides at the head of runMeasurements
ResolveParameters ==
    /\ \E config \in ParameterConfigs :
           /\ args' = Some([set |-> LastGiven, calls |-> SettingsCalls,
                            config |-> Some(config)])
           /\ returned' = Some(EffectiveParameters(config, globalSettings))
    /\ UNCHANGED <<measurer, registry, globalSettings, stopRequested, skippedSubGroups,
                   activeConnections, run, events, sent, active>>

ParametersNext == CallMeasureSettings \/ ResolveParameters

ParametersSpec == MatcherInit /\ [][ParametersNext]_vars

(***************************************************************************)
(* The Measurer: a list of shells, each around one function, warmed up and *)
(* measured in rounds.  warmup and measure are synchronous, so nothing     *)
(* else runs between their steps; one step here is one pass of the inner   *)
(* loop, the call of one shell.  The clock and the heap are read around    *)
(* the calls of a shell: every call takes a tenth of a millisecond and     *)
(* leaves one byte.                                                        *)
(***************************************************************************)
Functions == <<"first", "second", "fourth">>

\* the lists of functions a Measurer is built from
FunctionLists == {SubSeq(Functions, 1, L) : L \in 0..(IF MaxShells < 3 THEN MaxShells ELSE 3)}

\* Measurement.reset
ResetMeasurement == [min |-> Infinity, max |-> Zero, sum |-> Zero, cnt |-> 0]

\* Math.max and Math.min of two numbers
MathMax(a, b) == IF a = NaN \/ b = NaN THEN NaN ELSE IF FlLeq(a, b) THEN b ELSE a
MathMin(a, b) == IF a = NaN \/ b = NaN THEN NaN ELSE IF FlLeq(a, b) THEN a ELSE b

\* faulty variant: one more measurement, whatever the number of calls it covers
UpdateCountingOne(m, v, cnt) ==
    [min |-> MathMin(m.min, FlDiv(v, FromInt(cnt))),
     max |-> MathMax(m.max, FlDiv(v, FromInt(cnt))),
     sum |-> FlAdd(m.sum, v),
     cnt |-> m.cnt + 1]

\* Measurement.update
Update(m, v, cnt) ==
    [min |-> MathMin(m.min, FlDiv(v, FromInt(cnt))),
     max |-> MathMax(m.max, FlDiv(v, FromInt(cnt))),
     sum |-> FlAdd(m.sum, v),
     cnt |-> m.cnt + cnt]

\* new MeasureShell(f) for a function; `invocations` counts the calls of f
NewMeasureShell(f) ==
    [label |-> f, f |-> f, duration |-> ResetMeasurement, memory |-> ResetMeasurement,
     invocations |-> 0]

\* MeasureShell.cnt
ShellCnt(shell) == shell.duration.cnt

\* new Measurer(label, shells): one shell per function, pushed in list order
NewMeasurer(label, shells) ==
    [NoMeasurer EXCEPT !.label = label, !.given = shells,
                       !.shells = [k \in 1..Len(shells) |-> NewMeasureShell(shells[k])]]

\* Measurer.parseMeasuringOptions; of the numbers only 0 and 1 are passed, for which
\* 10 ** (log10 * 0.75) and 10 ** (log10 * 0.25) are at most 1
parseMeasuringOptions(options) ==
    IF options.kind = "number"
    THEN [seriesLength |-> 1, seriesCount |-> 1, delay |-> 100]
    ELSE [seriesLength |-> options.seriesLength, seriesCount |-> options.seriesCount,
          delay |-> 100]

MeasuringOptions ==
    [kind : {"number"}, n : {0, 1}]
    \cup [kind : {"object"}, seriesCount : 0..MaxSeriesCount, seriesLength : 0..MaxSeriesLength]

\* Timer.getDurationMs and MemoryMeasurer.getValue after `count` calls
DurationMs(count) == Tenths(count)
MemoryValue(count) == FromInt(count)

\* the loops of warmup and measure: the next (round, shell) after shell k of round i
AfterShell(m) ==
    IF m.shell < Len(m.shells) THEN [m EXCEPT !.shell = m.shell + 1]
    ELSE [m EXCEPT !.i = m.i + 1, !.shell = 1]

\* the loops are over: no round left, or no shell to call
LoopsDone(m) == m.i >= m.options.seriesCount \/ Len(m.shells) = 0

MeasurerConstruct ==
    /\ measurer = NoMeasurer
    /\ \E shells \in FunctionLists :
           measurer' = NewMeasurer("TEST", shells)
    /\ UNCHANGED <<registry, globalSettings, stopRequested, skippedSubGroups,
                   activeConnections, run, events, sent, active, args, returned>>

\* warmup(options) and measure(options) up to their loops
MeasurerCall ==
    /\ measurer # NoMeasurer
    /\ measurer.pc = "idle"
    /\ measurer.calls < MaxCalls
    /\ \E op \in {"warmup", "measure"}, options \in MeasuringOptions :
           measurer' = [measurer EXCEPT !.pc = op, !.op = op, !.outcome = "",
                                        !.options = parseMeasuringOptions(options),
                                        !.i = 0, !.shell = 1, !.measured = <<>>,
                                        !.entry = measurer.shells,
                                        !.calls = measurer.calls + 1]
    /\ UNCHANGED <<registry, globalSettings, stopRequested, skippedSubGroups,
                   activeConnections, run, events, sent, active, args, returned>>

\* shell.warmup(seriesLength): the function is called seriesLength times, or throws on
\* one of these calls; the exception leaves warmup and the chain of calls on the Measurer
ShellWarmup ==
    /\ measurer.pc = "warmup"
    /\ ~LoopsDone(measurer)
    /\ LET k == measurer.shell
           count == measurer.options.seriesLength
       IN  \/ measurer' = AfterShell([measurer EXCEPT
                              !.shells[k].invocations = @ + count,
                              !.measured = Append(@, k)])
           \/ \E failing \in 1..count :
                  measurer' = [measurer EXCEPT !.shells[k].invocations = @ + failing,
                                               !.pc = "threw", !.outcome = "threw"]
    /\ UNCHANGED <<registry, globalSettings, stopRequested, skippedSubGroups,
                   activeConnections, run, events, sent, active, args, returned>>

\* shell.measure(seriesLength): the same calls between two readings of the clock and
\* of the heap, then both measurements updated
ShellMeasure ==
    /\ measurer.pc = "measure"
    /\ ~LoopsDone(measurer)
    /\ LET k == measurer.shell
           count == measurer.options.seriesLength
       IN  \/ measurer' = AfterShell([measurer EXCEPT
                              !.shells[k].invocations = @ + count,
                              !.shells[k].duration = Update(@, DurationMs(count), count),
                              !.shells[k].memory = Update(@, MemoryValue(count), count),
                              !.measured = Append(@, k)])
           \/ \E failing \in 1..count :
                  measurer' = [measurer EXCEPT !.shells[k].invocations = @ + failing,
                                               !.pc = "threw", !.outcome = "threw"]
    /\ UNCHANGED <<registry, globalSettings, stopRequested, skippedSubGroups,
                   activeConnections, run, events, sent, active, args, returned>>

\* return this
MeasurerReturn ==
    /\ measurer.pc \in {"warmup", "measure"}
    /\ LoopsDone(measurer)
    /\ measurer' = [measurer EXCEPT !.pc = "idle", !.outcome = "returned"]
    /\ UNCHANGED <<registry, globalSettings, stopRequested, skippedSubGroups,
                   activeConnections, run, events, sent, active, args, returned>>

\* Measurer.reset
MeasurerReset ==
    /\ measurer # NoMeasurer
    /\ measurer.pc = "idle"
    /\ measurer.calls < MaxCalls
    /\ measurer' = [measurer EXCEPT
                       !.shells = [k \in 1..Len(measurer.shells) |->
                                      [measurer.shells[k] EXCEPT !.duration = ResetMeasurement,
                                                                 !.memory = ResetMeasurement]],
                       !.op = "reset", !.outcome = "returned",
                       !.calls = measurer.calls + 1]
    /\ UNCHANGED <<registry, globalSettings, stopRequested, skippedSubGroups,
                   activeConnections, run, events, sent, active, args, returned>>

MeasurerNext ==
    \/ MeasurerConstruct
    \/ MeasurerCall
    \/ ShellWarmup
    \/ ShellMeasure
    \/ MeasurerReturn
    \/ MeasurerReset

MeasurerSpec == MatcherInit /\ [][MeasurerNext]_vars

(***************************************************************************)
(* One Measurement on its own: the constructor resets it, and update,      *)
(* concat and reset are called in any order.  `args` keeps the (v, cnt)    *)
(* pairs that went into it since the last reset, those of the Measurements *)
(* concatenated to it included; `returned` is the Measurement.             *)
(***************************************************************************)
\* faulty variant: concat that leaves the count alone
ConcatKeepingCount(m, other) ==
    [min |-> MathMin(m.min, other.min),
     max |-> MathMax(m.max, other.max),
     sum |-> FlAdd(m.sum, other.sum),
     cnt |-> m.cnt]

\* Measurement.concat
Concat(m, other) ==
    [min |-> MathMin(m.min, other.min),
     max |-> MathMax(m.max, other.max),
     sum |-> FlAdd(m.sum, other.sum),
     cnt |-> m.cnt + other.cnt]

\* the (v, cnt) arguments of update: a duration and the number of calls it covers
UpdateArguments == {[v |-> v, cnt |-> cnt] : v \in DurationReadings, cnt \in 1..MaxSeriesLength}

\* new Measurement(), and reset() later on
MeasurementReset ==
    /\ args' = Some(<<>>)
    /\ returned' = Some(ResetMeasurement)
    /\ UNCHANGED <<measurer, registry, globalSettings, stopRequested, skippedSubGroups,
                   activeConnections, run, events, sent, active>>

\* update(v, cnt)
MeasurementUpdate ==
    /\ returned # None
    /\ Len(Get(args)) < MaxSamples
    /\ \E given \in UpdateArguments :
          /\ args' = Some(Append(Get(args), given))
          /\ returned' = Some(Update(Get(returned), given.v, given.cnt))
    /\ UNCHANGED <<measurer, registry, globalSettings, stopRequested, skippedSubGroups,
                   activeConnections, run, events, sent, active>>

\* concat(m) with a Measurement m that has been updated once or twice since its reset
MeasurementConcat ==
    /\ returned # None
    /\ \E first \in UpdateArguments, more \in {<<>>} \cup {<<u>> : u \in UpdateArguments} :
          LET one == Update(ResetMeasurement, first.v, first.cnt)
              other == IF more = <<>> THEN one ELSE Update(one, more[1].v, more[1].cnt)
          IN  /\ Len(Get(args)) + 1 + Len(more) <= MaxSamples
              /\ args' = Some(Get(args) \o <<first>> \o more)
              /\ returned' = Some(Concat(Get(returned), other))
    /\ UNCHANGED <<measurer, registry, globalSettings, stopRequested, skippedSubGroups,
                   activeConnections, run, events, sent, active>>

MeasurementNext == MeasurementReset \/ MeasurementUpdate \/ MeasurementConcat

MeasurementSpec == MatcherInit /\ [][MeasurementNext]_vars

(***************************************************************************)
(* What the claims speak of.                                               *)
(***************************************************************************)
\* the leaves of the hierarchy in declaration order
Leaves == traverseNode(registry, RootId)

\* the position in `leaves` (declaration order) of the leaf titled `title` owned by `key`
DeclIndex(leaves, key, title) ==
    CHOOSE n \in 1..Len(leaves) : leaves[n].title = title /\ keyPath(leaves[n].path) = key

\* the position in `leaves` of the first leaf owned by `key`
GroupRank(leaves, key) ==
    CHOOSE n \in 1..Len(leaves) :
        /\ keyPath(leaves[n].path) = key
        /\ \A m \in 1..(n - 1) : keyPath(leaves[m].path) # key

EventKey(e) == run[1].allPathKeys[e.pathKeyIndex]

TraversalRank(leaves, e) ==
    <<GroupRank(leaves, EventKey(e)), e.dataSizeIndex, DeclIndex(leaves, EventKey(e), e.title)>>

LexLess(a, b) ==
    \/ a[1] < b[1]
    \/ a[1] = b[1] /\ a[2] < b[2]
    \/ a[1] = b[1] /\ a[2] = b[2] /\ a[3] < b[3]

\* the run was started without selection patterns
NoSelection(r) == run[r].selectedPaths = None

\* the events of run 1 that report the leaf at `path` for the n-th configured data size
EventsOf(path, n) ==
    {k \in 1..Len(events[1]) : events[1][k].path = path /\ events[1][k].dataSizeIndex = n}

\* the run went through its whole plan: no stop, no skip of one of its groups, no failure
RanToTheEnd(r) ==
    /\ run[r].pc = "done"
    /\ ~stopRequested
    /\ \A k \in 1..Len(run[r].allPathKeys) : ~IsSkipped(run[r].allPathKeys[k])

(***************************************************************************)
(* C1: progress events are emitted in traversal order: groups in plan      *)
(* order (the order in which the groups first appear in the declarations), *)
(* within a group the data sizes in configured order, within a data size   *)
(* the leaves of the group in declaration order; every event carries the   *)
(* data size of its place in dataUnitSizes.                                *)
(***************************************************************************)
C1_TraversalOrder ==
    LET leaves == Leaves
        sizes == run[1].parameters.dataUnitSizes
    IN  \A n \in 1..Len(events[1]) :
            /\ events[1][n].dataSizeIndex \in 1..Len(sizes)
            /\ events[1][n].dataSize = sizes[events[1][n].dataSizeIndex]
            /\ \E m \in 1..Len(leaves) :
                  /\ leaves[m].title = events[1][n].title
                  /\ keyPath(leaves[m].path) = EventKey(events[1][n])
            /\ n > 1 => LexLess(TraversalRank(leaves, events[1][n - 1]),
                                TraversalRank(leaves, events[1][n]))

\* events of two groups and of two data sizes have been emitted
C1_Witness ==
    /\ Len(events[1]) >= 4
    /\ \E n, m \in 1..Len(events[1]) : events[1][n].pathKeyIndex # events[1][m].pathKeyIndex
    /\ \E n, m \in 1..Len(events[1]) :
          /\ events[1][n].pathKeyIndex = events[1][m].pathKeyIndex
          /\ events[1][n].dataSizeIndex # events[1][m].dataSizeIndex
          /\ events[1][n].itemIndex # events[1][m].itemIndex

(***************************************************************************)
(* C2: when a run started without selection patterns has gone through its  *)
(* whole plan (no stop, no skip, no failure), every registered leaf has    *)
(* exactly one event for each configured data size, and the leaves of a    *)
(* group are reported in declaration order for each data size.             *)
(***************************************************************************)
C2_EveryLeafOncePerSize ==
    RanToTheEnd(1) /\ NoSelection(1) =>
        LET leaves == Leaves
        IN  \A m \in 1..Len(leaves) : \A n \in 1..Len(run[1].parameters.dataUnitSizes) :
                /\ Cardinality(EventsOf(leaves[m].path, n)) = 1
                /\ \A l \in 1..(m - 1) :
                      keyPath(leaves[l].path) = keyPath(leaves[m].path) =>
                          \A j \in EventsOf(leaves[l].path, n) :
                              \A k \in EventsOf(leaves[m].path, n) : j < k

(***************************************************************************)
(* C3: within one run no two events carry the same (leaf path, dataSize)   *)
(* pair, whatever the sequence of data sizes and the hierarchy.            *)
(***************************************************************************)
C3_NoDuplicateEvents ==
    \A j, k \in 1..Len(events[1]) :
        j # k => ~(events[1][j].path = events[1][k].path /\ events[1][j].dataSize = events[1][k].dataSize)

(***************************************************************************)
(* Steps of run 1 the claims about stop and skip speak of.                 *)
(***************************************************************************)
\* a group, a data size or a leaf is started
StartsGroup == run[1].pc = "group" /\ run'[1].pc = "size"
StartsSize == run[1].pc = "size" /\ run'[1].pc = "shared"
StartsLeaf == run[1].pc = "item" /\ run'[1].pc \in {"evaluate", "data"}
\* a series of the leaf in flight is started
StartsSeries == run[1].pc = "series" /\ run'[1].pc = "invoke"
\* the run starts to wait for an inter-series delay, or its wait comes to an end
EntersDelay == run[1].pc # "delay" /\ run'[1].pc = "delay"
LeavesDelay == run[1].pc = "delay" /\ run'[1].pc # "delay"

CurrentSkipped ==
    /\ run[1].pathKeyIndex \in 1..Len(run[1].allPathKeys)
    /\ IsSkipped(PathKey(1))

\* the events of run 1 for the g-th group of its plan
EventsOfGroup(g) == {k \in 1..Len(events[1]) : events[1][k].pathKeyIndex = g}

\* one event per leaf of the g-th group and per configured data size
GroupComplete(g) ==
    Cardinality(EventsOfGroup(g)) =
        Len(run[1].itemsByPathKey[run[1].allPathKeys[g]]) * Len(run[1].parameters.dataUnitSizes)

\* the run has ended without stop() and every group that is not skipped is complete
UnskippedGroupsComplete ==
    run[1].pc = "done" /\ ~stopRequested =>
        \A g \in 1..Len(run[1].allPathKeys) :
            ~IsSkipped(run[1].allPathKeys[g]) => GroupComplete(g)

\* every sampled leaf reported so far got all its series (and memory passes)
FullySampled ==
    \A n \in 1..Len(events[1]) :
        events[1][n].kind = "result" =>
            /\ events[1][n].samples = run[1].parameters.seriesCount
            /\ \A count \in {run[1].parameters.memoryMeasurementsCount} :
                   Len(count) > 0 /\ Get(count) > 0 => events[1][n].memory = count

(***************************************************************************)
(* C5: when skipPathKey(k) is called while group k is being processed      *)
(* (the run is then suspended inside a leaf of k), the sampling of that    *)
(* leaf is not cut short: without stop() every reported leaf has all its   *)
(* series; no later leaf or data size of group k is started; and the run   *)
(* goes on to the next group, so that at its end every group that was not  *)
(* skipped has all its events.                                             *)
(***************************************************************************)
C5_SkipDuringGroup ==
    /\ [](~stopRequested => FullySampled)
    /\ [][CurrentSkipped => ~StartsLeaf /\ ~StartsSize]_vars
    /\ [][CurrentSkipped /\ ~stopRequested /\ run[1].pc = "size" =>
              run'[1].pc = "group" /\ run'[1].pathKeyIndex = run[1].pathKeyIndex + 1]_vars
    /\ []UnskippedGroupsComplete

\* a group was skipped while its first leaf was being sampled: it has that leaf's event
\* with all its series and no other, and the next group has all its events
C5_Witness ==
    /\ run[1].pc = "done"
    /\ ~stopRequested
    /\ \E g \in 1..(Len(run[1].allPathKeys) - 1) :
          /\ IsSkipped(run[1].allPathKeys[g])
          /\ ~IsSkipped(run[1].allPathKeys[g + 1])
          /\ Cardinality(EventsOfGroup(g)) = 1
          /\ ~GroupComplete(g)
          /\ \A k \in EventsOfGroup(g) : events[1][k].samples = 2
          /\ GroupComplete(g + 1)
          /\ EventsOfGroup(g + 1) # {}

Sent1 == sent[run[1].ws]

\* the places in Sent1 of the messages of the given types
Places(types) == {k \in 1..Len(Sent1) : Sent1[k].type \in types}

ProgressTypes == {"progress", "customProgress"}

(***************************************************************************)
(* C7: a run that has returned, because its plan is exhausted or because   *)
(* it was stopped, has delivered exactly one 'complete' message; the       *)
(* message comes after every progress message of the run, and once it is   *)
(* sent the run emits no event and sends nothing; before the run returns   *)
(* there is no 'complete' message.                                         *)
(***************************************************************************)
C7_CompleteExactlyOnce ==
    /\ [](run[1].pc # "idle" =>
             /\ Cardinality(Places({"complete"})) = IF run[1].pc = "done" THEN 1 ELSE 0
             /\ \A c \in Places({"complete"}) : \A k \in Places(ProgressTypes) : k < c
             /\ run[1].pc = "done" => Last(Sent1).type = "complete")
    /\ [][run[1].pc = "return" => run'[1].pc = "done"]_vars
    /\ [][run[1].pc = "done" => events' = events /\ sent' = sent]_vars

\* a stopped run that had sent progress messages has delivered its 'complete'
C7_Witness ==
    /\ run[1].pc = "done"
    /\ stopRequested
    /\ run[1].currentStep < run[1].totalSteps
    /\ Places(ProgressTypes) # {}
    /\ Cardinality(Places({"complete"})) = 1

(***************************************************************************)
(* C8: when a target function or a data generator throws, the run ends:    *)
(* there is no event for the failing leaf at that data size (nor for a     *)
(* later leaf of the group at that size), no event is emitted and no       *)
(* progress message is sent afterwards, exactly one 'error' message is     *)
(* delivered, as the last message, and no 'complete' message.              *)
(***************************************************************************)
C8_FailureEndsRun ==
    /\ [](run[1].pc \in {"threw", "failed"} =>
             /\ \A k \in 1..Len(events[1]) :
                   ~(/\ events[1][k].pathKeyIndex = run[1].pathKeyIndex
                     /\ events[1][k].dataSizeIndex = run[1].dataSizeIndex
                     /\ events[1][k].itemIndex >= run[1].itemIndex)
             /\ Places({"complete"}) = {}
             /\ Cardinality(Places({"error"})) = IF run[1].pc = "failed" THEN 1 ELSE 0
             /\ run[1].pc = "failed" => Last(Sent1).type = "error")
    /\ [](run[1].pc \notin {"idle", "threw", "failed"} => Places({"error"}) = {})
    /\ [][run[1].pc = "threw" => run'[1].pc = "failed" /\ events' = events]_vars
    /\ [][run[1].pc = "failed" => events' = events /\ sent' = sent]_vars

\* a target threw in its second series, after an earlier leaf had been reported
C8_Witness ==
    /\ run[1].pc = "failed"
    /\ Len(events[1]) >= 1
    /\ Len(run[1].durations) >= 1
    /\ Cardinality(Places({"error"})) = 1

(***************************************************************************)
(* Progress values.                                                        *)
(***************************************************************************)
NonDecreasingProgress ==
    \A n \in 2..Len(events[1]) : events[1][n - 1].progress <= events[1][n].progress

(***************************************************************************)
(* C9 as stated: the progress values of the events of a run never          *)
(* decrease, and the last event of a run that came to its end without      *)
(* stop() carries 100.                                                     *)
(***************************************************************************)
C9_LastEventCarries100 ==
    /\ NonDecreasingProgress
    /\ run[1].pc = "done" /\ ~stopRequested /\ Len(events[1]) > 0 => Last(events[1]).progress = 100

(***************************************************************************)
(* C9 (amended): the progress values of the events of a run never          *)
(* decrease, and the last event of a run that came to its end without      *)
(* stop() and without a skip of one of its groups carries 100.             *)
(***************************************************************************)
C9_ProgressMonotone ==
    /\ NonDecreasingProgress
    /\ RanToTheEnd(1) /\ Len(events[1]) > 0 => Last(events[1]).progress = 100

\* a run of several events went through its whole plan, from below 100 up to 100
C9_Witness ==
    /\ RanToTheEnd(1)
    /\ Len(events[1]) >= 3
    /\ events[1][1].progress < events[1][2].progress
    /\ events[1][2].progress < 100
    /\ Last(events[1]).progress = 100

\* the leaf passes the selection of run 1
Included(leaf) == Len(FilterBySelectedPaths(<<leaf>>, run[1].selectedPaths)) = 1

\* the sum of the data sizes of the first n events of run 1
RECURSIVE Processed(_)
Processed(n) == IF n = 0 THEN 0 ELSE events[1][n].dataSize + Processed(n - 1)

(***************************************************************************)
(* C10: the progress of every event is round(100 * processed / total),     *)
(* where processed is the sum of the data sizes of the units completed so  *)
(* far, this one included, and total is the number of leaves that pass the *)
(* selection times the sum of the configured data sizes; the value is an   *)
(* integer in 0..100.                                                      *)
(***************************************************************************)
C10_ProgressFormula ==
    LET leaves == Leaves
        total == Cardinality({m \in 1..Len(leaves) : Included(leaves[m])})
                     * SumSeq(run[1].parameters.dataUnitSizes)
    IN  \A n \in 1..Len(events[1]) :
            /\ total > 0
            /\ events[1][n].progress = RoundDiv(100 * Processed(n), total)
            /\ events[1][n].progress \in 0..100

(***************************************************************************)
(* Datasets and generator calls.                                           *)
(***************************************************************************)
\* the leaves of the g-th group of the plan of run 1
GroupItems(g) == run[1].itemsByPathKey[run[1].allPathKeys[g]]

\* every leaf of the g-th group has the identical data generator
SharesGenerator(g) ==
    \A j, k \in 1..Len(GroupItems(g)) :
        GroupItems(g)[j].target.dataGenerator = GroupItems(g)[k].target.dataGenerator

\* the generator calls of run 1 made before its n-th event was emitted and after the
\* event before it
CallsSince(n) ==
    events[1][n].generatorCalls - (IF n = 1 THEN 0 ELSE events[1][n - 1].generatorCalls)

\* the n-th event is the first of its group and data size
FirstOfUnit(n) ==
    \/ n = 1
    \/ events[1][n - 1].pathKeyIndex # events[1][n].pathKeyIndex
    \/ events[1][n - 1].dataSizeIndex # events[1][n].dataSizeIndex

(***************************************************************************)
(* C11: in a group whose leaves all have the identical data generator, the *)
(* generator is called dataUnitsCount times for a (group, data size), all  *)
(* before the first leaf and none between the leaves, and every leaf of    *)
(* the group gets the dataset those calls returned, in the order of the    *)
(* calls.                                                                  *)
(***************************************************************************)
C11_SharedDataset ==
    LET count == run[1].parameters.dataUnitsCount
    IN  \A n \in 1..Len(events[1]) :
            SharesGenerator(events[1][n].pathKeyIndex) =>
                /\ CallsSince(n) = IF FirstOfUnit(n) THEN count ELSE 0
                /\ events[1][n].data =
                       Generated(GroupItems(events[1][n].pathKeyIndex)[1].target.dataGenerator,
                                 events[1][n].dataSize,
                                 events[1][n].generatorCalls - count + 1, count)
                /\ ~FirstOfUnit(n) => events[1][n].data = events[1][n - 1].data

\* two leaves that share a generator have been reported for one size with a dataset of
\* two data: two events and two generator calls
C11_Witness ==
    /\ Len(events[1]) = 2
    /\ SharesGenerator(1)
    /\ Len(GroupItems(1)) = 2
    /\ events[1][2].itemIndex = 2
    /\ ~FirstOfUnit(2)
    /\ Len(events[1][2].data) = 2
    /\ events[1][2].generatorCalls = 2
    /\ run[1].generatorCalls = 2

(***************************************************************************)
(* The events a plan yields, told from the plan and the parameters alone.  *)
(***************************************************************************)
\* the (group, size, leaf) places of the plan of run 1
PlanPlaces ==
    UNION {{<<g, n, k>> : n \in 1..Len(run[1].parameters.dataUnitSizes),
                          k \in 1..Len(GroupItems(g))} :
           g \in 1..Len(run[1].allPathKeys)}

\* the i-th place in traversal order
PlaceAt(i) == CHOOSE p \in PlanPlaces : Cardinality({q \in PlanPlaces : LexLess(q, p)}) = i - 1

\* what an event shows of its leaf: which leaf, which size, which kind of result and how
\* many raw values
Shape(e) ==
    [path |-> e.path, title |-> e.title, dataSize |-> e.dataSize,
     result |-> IF e.result = None THEN None ELSE Some(Len(Get(e.result).series)),
     customResult |-> IF e.customResult = None THEN None
                      ELSE Some(Len(Get(e.customResult).values))]

\* the shape of the event of a place of the plan; the generators do not enter
ShapeOfPlace(p) ==
    LET item == GroupItems(p[1])[p[3]]
    IN  [path |-> item.target.path, title |-> item.title,
         dataSize |-> run[1].parameters.dataUnitSizes[p[2]],
         result |-> IF item.type = "evaluate" THEN None
                    ELSE Some(run[1].parameters.seriesCount),
         customResult |-> IF item.type = "evaluate" THEN Some(run[1].parameters.dataUnitsCount)
                          ELSE None]

\* the generator calls of a whole run: one dataset per size for a group that shares its
\* generator, one per size and leaf for a group that does not
RECURSIVE GeneratorCallsOfPlan(_)
GeneratorCallsOfPlan(g) ==
    IF g = 0 THEN 0
    ELSE GeneratorCallsOfPlan(g - 1)
         + Len(run[1].parameters.dataUnitSizes) * run[1].parameters.dataUnitsCount
           * (IF SharesGenerator(g) THEN 1 ELSE Len(GroupItems(g)))

(***************************************************************************)
(* C12: the events of a run that went through its whole plan are the same  *)
(* for the groups that reuse one shared dataset and for the groups that    *)
(* generate a dataset per leaf: one event per place of the plan, in        *)
(* traversal order, each with the leaf, the data size, the kind of result  *)
(* and the number of raw values that the plan and the parameters fix;      *)
(* only the number of generator calls depends on the sharing.              *)
(***************************************************************************)
C12_SharingIsTransparent ==
    RanToTheEnd(1) =>
        /\ Len(events[1]) = Cardinality(PlanPlaces)
        /\ \A i \in 1..Len(events[1]) : Shape(events[1][i]) = ShapeOfPlace(PlaceAt(i))
        /\ run[1].generatorCalls = GeneratorCallsOfPlan(Len(run[1].allPathKeys))

\* a plan with a group of two leaves that share a generator and a group of two that do
\* not has been run to its end with datasets of two data
C12_Witness ==
    /\ RanToTheEnd(1)
    /\ run[1].parameters.dataUnitsCount = 2
    /\ Len(events[1]) >= 4
    /\ \E g, h \in 1..Len(run[1].allPathKeys) :
          /\ Len(GroupItems(g)) = 2 /\ SharesGenerator(g)
          /\ Len(GroupItems(h)) = 2 /\ ~SharesGenerator(h)

(***************************************************************************)
(* Selection.                                                              *)
(***************************************************************************)
\* the path satisfies the selection of run 1: some pattern matches it, or there is none
SatisfiesSelection(path) ==
    \/ run[1].selectedPaths = None
    \/ Get(run[1].selectedPaths) = <<>>
    \/ \E i \in 1..Len(Get(run[1].selectedPaths)) :
          matchesPathPattern(path, Get(run[1].selectedPaths)[i])

\* the plan of run 1 has an entry for the leaf
InPlan(leaf) ==
    \E g \in 1..Len(run[1].allPathKeys) :
        /\ run[1].allPathKeys[g] = keyPath(leaf.path)
        /\ \E k \in 1..Len(GroupItems(g)) : GroupItems(g)[k].title = leaf.title

(***************************************************************************)
(* C13: a leaf of the hierarchy, measure or evaluate, is in the plan of a  *)
(* run iff its path matches at least one pattern of selectedPaths; with    *)
(* selectedPaths absent or empty every leaf is in the plan.                *)
(***************************************************************************)
C13_SelectedLeavesInPlan ==
    run[1].pc # "idle" =>
        LET leaves == Leaves
        IN  \A m \in 1..Len(leaves) : InPlan(leaves[m]) <=> SatisfiesSelection(leaves[m].path)

(***************************************************************************)
(* C14: matchesPathPattern(X, P) is false whenever P is longer than X, and *)
(* true whenever P is empty.                                               *)
(***************************************************************************)
C14_LongerPatternNeverMatches ==
    returned # None =>
        /\ Len(Get(args).pattern) > Len(Get(args).path) => Get(returned) = FALSE
        /\ Get(args).pattern = <<>> => Get(returned) = TRUE

\* a pattern of wildcards only, longer than a path that is not empty, was refused
C14_Witness ==
    /\ returned = Some(FALSE)
    /\ Len(Get(args).path) > 0
    /\ Len(Get(args).pattern) > Len(Get(args).path)
    /\ \A i \in 1..Len(Get(args).pattern) : Get(args).pattern[i] = Wildcard

(***************************************************************************)
(* C15: for a pattern P no longer than the path X, matchesPathPattern(X,   *)
(* P) is true iff every level i of P is the wildcard, or a string equal to *)
(* X[i], or a set that contains X[i]; the levels of X beyond P are free.   *)
(***************************************************************************)
C15_LevelwiseMatch ==
    returned # None /\ Len(Get(args).pattern) <= Len(Get(args).path) =>
        (Get(returned) <=>
            \A i \in 1..Len(Get(args).pattern) :
                \/ Get(args).pattern[i] = Wildcard
                \/ Get(args).pattern[i] = Str(Get(args).path[i])
                \/ \E S \in SUBSET MatcherTitles :
                      Get(args).pattern[i] = Arr(S) /\ Get(args).path[i] \in S)

\* a one-level set pattern matched a longer path by its first level
C15_Witness ==
    /\ returned = Some(TRUE)
    /\ Len(Get(args).pattern) = 1
    /\ Len(Get(args).path) = 2
    /\ Get(args).pattern[1] = Arr({Get(args).path[1]})

(***************************************************************************)
(* C16: the groups of the plan are keyed by the owning path key of their   *)
(* leaves (the parent path, or the leaf's own title for a leaf at the top  *)
(* level) and ordered by the first appearance of a leaf of theirs in the   *)
(* depth-first traversal, children in declaration order; within a group    *)
(* the leaves keep the traversal order, also when a nested subgroup stands *)
(* between them in the hierarchy.                                          *)
(***************************************************************************)
OwningKey(leaf) ==
    IF Len(leaf.path) > 1 THEN Join(SubSeq(leaf.path, 1, Len(leaf.path) - 1)) ELSE leaf.title

\* the position in `leaves` of the plan item `item`
LeafOf(leaves, item) ==
    {n \in 1..Len(leaves) : leaves[n].title = item.title /\ OwningKey(leaves[n]) = item.pathKey}

C16_GroupsInTraversalOrder ==
    run[1].pc # "idle" =>
        LET leaves == Leaves
            keys == run[1].allPathKeys
            byKey == run[1].itemsByPathKey
            At(item) == CHOOSE n \in LeafOf(leaves, item) : TRUE
            First(key) == At(byKey[key][1])
        IN  /\ DOMAIN byKey = {keys[i] : i \in 1..Len(keys)}
            /\ \A i, j \in 1..Len(keys) : i < j => keys[i] # keys[j]
            /\ \A key \in DOMAIN byKey :
                  /\ byKey[key] # <<>>
                  /\ \A i \in 1..Len(byKey[key]) :
                        /\ byKey[key][i].pathKey = key
                        /\ Cardinality(LeafOf(leaves, byKey[key][i])) = 1
                  /\ \A i, j \in 1..Len(byKey[key]) :
                        i < j => At(byKey[key][i]) < At(byKey[key][j])
            /\ \A i, j \in 1..Len(keys) : i < j => First(keys[i]) < First(keys[j])

\* a plan whose first group holds two leaves that a leaf of the second group
\* separates in the traversal
C16_Witness ==
    /\ run[1].pc # "idle"
    /\ Len(run[1].allPathKeys) = 2
    /\ LET leaves == Leaves
           g1 == run[1].itemsByPathKey[run[1].allPathKeys[1]]
           g2 == run[1].itemsByPathKey[run[1].allPathKeys[2]]
       IN  /\ Len(g1) = 2
           /\ Len(g2) = 1
           /\ \E a \in LeafOf(leaves, g1[1]), b \in LeafOf(leaves, g2[1]),
                 c \in LeafOf(leaves, g1[2]) : a < b /\ b < c

(***************************************************************************)
(* C17: at most one target invocation is in flight at any moment; all the  *)
(* series and memory passes of one leaf at one size are over before the    *)
(* first invocation of the next leaf; an asynchronous target is awaited    *)
(* one invocation at a time.                                               *)
(***************************************************************************)
\* a target is called in this step
CallsTarget == run'[1].calls # run[1].calls /\ run'[1].calls # <<>>
\* the target of the leaf that emitted event e
TargetOf(e) == run[1].itemsByPathKey[run[1].allPathKeys[e.pathKeyIndex]][e.itemIndex].target

C17_OneInvocationAtATime ==
    [][/\ run'[1].inFlight <= 1
       /\ run'[1].inFlight = 1 => run'[1].pc \in {"awaitFn", "awaitMemFn"} /\ active' # 1
       /\ CallsTarget => run[1].inFlight = 0
       /\ StartsLeaf => run[1].inFlight = 0 /\ run[1].calls = <<>>
       /\ \A n \in 1..Len(events'[1]) :
             \A k \in 1..Len(events'[1][n].calls) :
                 events'[1][n].calls[k].fn = TargetOf(events'[1][n]).fn]_vars

\* a leaf was called, then an asynchronous leaf was called more than once, then the
\* next unit was called, and the run came to its end
C17_Witness ==
    /\ run[1].pc = "done"
    /\ \E l, n, m \in 1..Len(events[1]) :
          /\ l < n /\ n < m
          /\ events[1][n].kind = "result"
          /\ TargetOf(events[1][n]).isAsync
          /\ Len(events[1][n].calls) > 1
          /\ events[1][l].calls # <<>>
          /\ TargetOf(events[1][l]).fn # TargetOf(events[1][n]).fn
          /\ events[1][m].calls # <<>>

(***************************************************************************)
(* C18: exactly one progress event is emitted for each completed (leaf,    *)
(* data size) unit, and every event carries exactly one of result and      *)
(* customResult: result for a measure leaf, customResult for an evaluate   *)
(* leaf.                                                                   *)
(***************************************************************************)
\* the events emitted at the place (group g, size s, leaf k) of the plan
EventsAt(g, s, k) ==
    {n \in 1..Len(events[1]) : /\ events[1][n].pathKeyIndex = g
                               /\ events[1][n].dataSizeIndex = s
                               /\ events[1][n].itemIndex = k}

\* the type in the hierarchy of the leaf that emitted event e
LeafTypeOf(leaves, e) ==
    LET item == run[1].itemsByPathKey[run[1].allPathKeys[e.pathKeyIndex]][e.itemIndex]
    IN  leaves[CHOOSE n \in LeafOf(leaves, item) : TRUE].type

C18_OneEventPerUnit ==
    LET leaves == Leaves
    IN  /\ \A n, m \in 1..Len(events[1]) :
              n # m => \/ events[1][n].pathKeyIndex # events[1][m].pathKeyIndex
                       \/ events[1][n].dataSizeIndex # events[1][m].dataSizeIndex
                       \/ events[1][n].itemIndex # events[1][m].itemIndex
        /\ \A k \in 1..(run[1].itemIndex - 1) :
              Cardinality(EventsAt(run[1].pathKeyIndex, run[1].dataSizeIndex, k)) = 1
        /\ run[1].pc = "done" /\ ~stopRequested /\ skippedSubGroups = {} =>
              \A g \in 1..Len(run[1].allPathKeys), s \in 1..Len(run[1].parameters.dataUnitSizes) :
                  \A k \in 1..Len(run[1].itemsByPathKey[run[1].allPathKeys[g]]) :
                      Cardinality(EventsAt(g, s, k)) = 1
        /\ \A n \in 1..Len(events[1]) :
              /\ (events[1][n].result = None) # (events[1][n].customResult = None)
              /\ LeafTypeOf(leaves, events[1][n]) = "measure" => events[1][n].result # None
              /\ LeafTypeOf(leaves, events[1][n]) = "evaluate" =>
                    events[1][n].customResult # None

\* a run that came to its end with an event of each kind
C18_Witness ==
    /\ run[1].pc = "done"
    /\ ~stopRequested
    /\ skippedSubGroups = {}
    /\ \E n, m \in 1..Len(events[1]) :
          /\ events[1][n].result # None /\ events[1][n].customResult = None
          /\ events[1][m].customResult # None /\ events[1][m].result = None

(***************************************************************************)
(* C19: a run of a degenerate configuration (a selection that matches no   *)
(* leaf, or a seriesCount of zero) completes at once with no event         *)
(* emitted, and no undefined (0/0) progress reaches the observer.          *)
(***************************************************************************)
Degenerate == run[1].allPathKeys = <<>> \/ run[1].parameters.seriesCount = 0

C19_DegenerateRunEmitsNothing ==
    run[1].pc # "idle" /\ Degenerate =>
        /\ events[1] = <<>>
        /\ \A n \in 1..Len(events[1]) : events[1][n].progress # Progress(0, 0)

(***************************************************************************)
(* C20: for a measure leaf at one data size, with no stop: exactly         *)
(* seriesCount series are run; each series calls the target exactly        *)
(* seriesSize times, and its k-th call (k from 0) receives                 *)
(* dataset[k mod length of the dataset]; each series gives one duration    *)
(* sample, so the result holds seriesCount samples.                        *)
(***************************************************************************)
C20_SeriesOfALeaf ==
    ~stopRequested =>
        \A n \in 1..Len(events[1]) :
            LET e == events[1][n]
                seriesCount == run[1].parameters.seriesCount
                seriesSize == run[1].parameters.seriesSize
            IN  e.result # None =>
                    /\ Len(Get(e.result).series) = seriesCount
                    /\ \A j \in 1..seriesCount :
                          /\ Get(e.result).series[j].series = j - 1
                          /\ Get(e.result).series[j].calls = seriesSize
                    /\ Len(e.calls) >= seriesCount * seriesSize
                    /\ \A j \in 0..(seriesCount - 1), k \in 0..(seriesSize - 1) :
                          /\ e.calls[j * seriesSize + k + 1].fn = TargetOf(e).fn
                          /\ Len(e.data) > 0 =>
                                e.calls[j * seriesSize + k + 1].datum
                                    = Some(e.data[(k % Len(e.data)) + 1])

\* a leaf measured in two series, each of them longer than the dataset of two
C20_Witness ==
    /\ ~stopRequested
    /\ \E n \in 1..Len(events[1]) :
          /\ events[1][n].result # None
          /\ Len(Get(events[1][n].result).series) = 2
          /\ Len(events[1][n].data) = 2
          /\ Len(events[1][n].calls) = 6
          /\ events[1][n].calls[3].datum = Some(events[1][n].data[1])
          /\ events[1][n].calls[6].datum = Some(events[1][n].data[1])

(***************************************************************************)
(* C21: memory is sampled only for measure leaves and only when            *)
(* memoryMeasurementsCount is configured: then exactly                     *)
(* memoryMeasurementsCount passes run after the duration series, each pass *)
(* issuing a GC hint, calling the target exactly once and recording        *)
(* max(0, after - before), so that no recorded delta is negative; when     *)
(* memoryMeasurementsCount is absent the result has no memory fields and   *)
(* the target is not called for memory.                                    *)
(***************************************************************************)
C21_MemoryPasses ==
    [][/\ \A n \in 1..Len(events'[1]) :
             LET e == events'[1][n]
                 passes == run'[1].parameters.memoryMeasurementsCount
                 seriesSize == run'[1].parameters.seriesSize
             IN  /\ e.customResult # None => e.memory = None
                 /\ e.result # None =>
                       IF passes # None /\ Get(passes) > 0
                       THEN /\ Get(e.result).memory # None
                            /\ Len(Get(Get(e.result).memory)) = Get(passes)
                            /\ \A k \in 1..Get(passes) : Get(Get(e.result).memory)[k] >= 0
                            /\ Len(e.calls) = Len(Get(e.result).series) * seriesSize + Get(passes)
                       ELSE /\ Get(e.result).memory = None
                            /\ Len(e.calls) = Len(Get(e.result).series) * seriesSize
       /\ run[1].pc = "memInvoke" /\ run'[1].calls # run[1].calls =>
             /\ Len(run'[1].calls) = Len(run[1].calls) + 1
             /\ run'[1].gcHints = run[1].gcHints + 1
       /\ run'[1].pc \in {"memInvoke", "awaitMemFn"} =>
             /\ run'[1].parameters.memoryMeasurementsCount # None
             /\ \/ Len(run'[1].durations) = run'[1].parameters.seriesCount
                \/ stopRequested']_vars

\* a measure leaf with two memory samples, one of them cut to zero
C21_Witness ==
    \E n \in 1..Len(events[1]) :
        /\ events[1][n].result # None
        /\ Get(events[1][n].result).memory # None
        /\ Len(Get(Get(events[1][n].result).memory)) = 2
        /\ Get(Get(events[1][n].result).memory)[1] = 0
        /\ Get(Get(events[1][n].result).memory)[2] > 0

(***************************************************************************)
(* C22: for an evaluate leaf at one data size the target is called exactly *)
(* once per datum of the dataset (dataUnitsCount calls, no series and no   *)
(* repetition), the numbers it returns are, in order, the raw values, and  *)
(* avg, min and max are computed directly over them.                       *)
(***************************************************************************)
C22_EvaluateOncePerDatum ==
    \A n \in 1..Len(events[1]) :
        LET e == events[1][n]
            count == run[1].parameters.dataUnitsCount
        IN  e.customResult # None =>
                LET values == Get(e.customResult).values
                IN  /\ Len(e.data) = count
                    /\ Len(e.calls) = count
                    /\ Len(values) = count
                    /\ \A k \in 1..count :
                          /\ e.calls[k] = [fn |-> TargetOf(e).fn, datum |-> Some(e.data[k])]
                          /\ values[k] = FnValue(TargetOf(e).fn, e.data[k])
                    /\ count > 0 =>
                          /\ Get(e.customResult).avg # None
                          /\ Get(Get(e.customResult).avg).num
                                = SumSeq(values)
                          /\ Get(Get(e.customResult).avg).den = count
                          /\ \E k \in 1..count : Get(e.customResult).min = Some(values[k])
                          /\ \E k \in 1..count : Get(e.customResult).max = Some(values[k])
                          /\ \A k \in 1..count :
                                /\ Get(Get(e.customResult).min) <= values[k]
                                /\ Get(Get(e.customResult).max) >= values[k]

\* an evaluate leaf with two data whose first value is not the greatest
C22_Witness ==
    \E n \in 1..Len(events[1]) :
        /\ events[1][n].customResult # None
        /\ Len(Get(events[1][n].customResult).values) = 2
        /\ Get(events[1][n].customResult).max
              # Some(Get(events[1][n].customResult).values[1])

(***************************************************************************)
(* The statistics of a measure result.                                     *)
(***************************************************************************)
\* duration avg/min/max are the avg/min/max of the durations over seriesSize, and the
\* throughputs are 1000 over them, the least duration giving the greatest throughput
StatisticsAsDefined ==
    LET durations == Get(args).durations
        seriesSize == FromInt(Get(args).seriesSize)
        result == Get(returned)
    IN  /\ \E i \in 1..Len(durations) :
              /\ \A j \in 1..Len(durations) : FlLeq(durations[i], durations[j])
              /\ result.durationMin = FlDiv(durations[i], seriesSize)
        /\ \E i \in 1..Len(durations) :
              /\ \A j \in 1..Len(durations) : FlLeq(durations[j], durations[i])
              /\ result.durationMax = FlDiv(durations[i], seriesSize)
        /\ result.duration
              = FlDiv(FlDiv(FlSum(durations), FromInt(Len(durations))), seriesSize)
        /\ result.avg = FlDiv(FromInt(1000), result.duration)
        /\ result.min = FlDiv(FromInt(1000), result.durationMax)
        /\ result.max = FlDiv(FromInt(1000), result.durationMin)

PositiveDurations ==
    \A i \in 1..Len(Get(args).durations) : Get(args).durations[i] # Zero

\* the sum of the durations was computed without rounding: counted in units of the
\* least power of two among the durations, it is the sum of their counts
SumIsExact ==
    LET durations == Get(args).durations
        low == CHOOSE e \in {durations[i].e : i \in 1..Len(durations)} :
                   \A i \in 1..Len(durations) : e <= durations[i].e
        Units(x) == x.m * Pow2(x.e - low)
        RECURSIVE Total(_)
        Total(n) == IF n = 0 THEN 0 ELSE Units(durations[n]) + Total(n - 1)
    IN  Units(FlSum(durations)) = Total(Len(durations))

(***************************************************************************)
(* C23 as stated: for a measure result, duration avg/min/max are the       *)
(* avg/min/max of the series durations divided by seriesSize, and ops/sec  *)
(* are their reciprocals with the pairing inverted (opsAvg = 1000 /        *)
(* durationAvg, opsMin = 1000 / durationMax, opsMax = 1000 / durationMin); *)
(* hence for positive durations opsMin <= opsAvg <= opsMax.                *)
(***************************************************************************)
C23_ThroughputOrdered ==
    returned # None =>
        /\ StatisticsAsDefined
        /\ PositiveDurations =>
              /\ FlLeq(Get(returned).min, Get(returned).avg)
              /\ FlLeq(Get(returned).avg, Get(returned).max)

(***************************************************************************)
(* C23 (amended): the same definitions of the six statistics; for positive *)
(* durations opsMin <= opsMax, and opsMin <= opsAvg <= opsMax when the sum *)
(* of the durations is computed without rounding.                          *)
(***************************************************************************)
C23_ThroughputOrderedUpToRounding ==
    returned # None =>
        /\ StatisticsAsDefined
        /\ PositiveDurations =>
              /\ FlLeq(Get(returned).min, Get(returned).max)
              /\ SumIsExact =>
                    /\ FlLeq(Get(returned).min, Get(returned).avg)
                    /\ FlLeq(Get(returned).avg, Get(returned).max)

\* three positive durations, not all the same, summed without rounding, whose least
\* gives the greatest throughput
C23_Witness ==
    /\ returned # None
    /\ Len(Get(args).durations) = 3
    /\ Get(args).seriesSize = 2
    /\ PositiveDurations
    /\ SumIsExact
    /\ Get(returned).durationMin # Get(returned).durationMax
    /\ Get(returned).max = FlDiv(FromInt(1000), Get(returned).durationMin)
    /\ Get(returned).min # Get(returned).max

(***************************************************************************)
(* C24: after any sequence of describe / measure / measureAsync / evaluate *)
(* calls, all the children of one describe node of the registered          *)
(* hierarchy have pairwise distinct titles and no describe node has both a *)
(* measure child and an evaluate child; a call that would break either     *)
(* rule throws.                                                            *)
(***************************************************************************)
\* the children of node id of registry reg, as nodes
ChildrenOf(reg, id) == [i \in 1..Len(reg.nodes[id].children) |-> reg.nodes[reg.nodes[id].children[i]]]

WellFormedHierarchy ==
    \A id \in 1..Len(registry.nodes) :
        LET children == ChildrenOf(registry, id)
        IN  /\ \A i, j \in 1..Len(children) : i # j => children[i].title # children[j].title
            /\ ~ /\ \E i \in 1..Len(children) : children[i].type = "measure"
                 /\ \E i \in 1..Len(children) : children[i].type = "evaluate"

\* the call made in this step would give the innermost open describe node two children
\* of one title, or a measure child beside an evaluate child
CallBreaksARule ==
    LET children == ChildrenOf(registry, Last(registry.describeContextStack))
        call == Get(args')
    IN  \/ \E i \in 1..Len(children) : children[i].title = call.title
        \/ /\ call.op \in {"measure", "measureAsync"}
           /\ \E i \in 1..Len(children) : children[i].type = "evaluate"
        \/ /\ call.op = "evaluate"
           /\ \E i \in 1..Len(children) : children[i].type = "measure"

IsCall == registry'.describeContextStack # Front(registry.describeContextStack)

C24_SiblingRules ==
    /\ []WellFormedHierarchy
    /\ [][IsCall =>
             /\ CallBreaksARule => returned' = Some("threw")
             /\ returned' = Some("threw") => registry' = registry
             /\ returned' = Some("ok") => Len(registry'.nodes) = Len(registry.nodes) + 1]_vars

\* a measure call was refused beside an evaluate leaf of another title, in a nested
\* describe block that already holds a group
C24_Witness ==
    /\ args # None
    /\ Get(args).op = "measure"
    /\ returned = Some("threw")
    /\ Len(registry.describeContextStack) = 2
    /\ LET children == ChildrenOf(registry, Last(registry.describeContextStack))
       IN  /\ Len(children) = 2
           /\ \E i \in 1..2 : children[i].type = "evaluate" /\ children[i].title # Get(args).title
           /\ \E i \in 1..2 : children[i].type = "describe"
           /\ \A i \in 1..2 : children[i].title # Get(args).title

(***************************************************************************)
(* C25: title uniqueness is enforced among siblings only: registering the  *)
(* same title at different nesting levels (a describe nested in a describe *)
(* of the same title) or under different parents (the same measure title   *)
(* in two describe blocks) is accepted, and the resulting leaves have      *)
(* distinct full paths and distinct owning path keys.                      *)
(***************************************************************************)
\* the call made in this step has a title and functions where functions are expected
WellTypedCall ==
    LET call == Get(args')
    IN  /\ call.title # NoTitle
        /\ call.fn # NotAFunction
        /\ call.op # "describe" => call.dataGenerator # NotAFunction

\* the title of the call made in this step is already registered somewhere
TitleRegistered ==
    \E id \in 2..Len(registry.nodes) : registry.nodes[id].title = Get(args').title

C25_SameTitleElsewhere ==
    /\ [][IsCall /\ WellTypedCall /\ TitleRegistered /\ ~CallBreaksARule
             => returned' = Some("ok")]_vars
    /\ [](\A a, b \in 2..Len(registry.nodes) :
             /\ a # b
             /\ registry.nodes[a].type # "describe"
             /\ registry.nodes[b].type # "describe"
             /\ registry.nodes[a].title = registry.nodes[b].title
             => /\ registry.nodes[a].path # registry.nodes[b].path
                /\ keyPath(registry.nodes[a].path) # keyPath(registry.nodes[b].path))

(***************************************************************************)
(* C26: a Measurer built from a list of functions has one shell per        *)
(* function, in list order.  When measure with seriesCount c and           *)
(* seriesLength n returns, it has measured the shells 1..L in this order c *)
(* times over, every shell's count is c*n more than when measure was       *)
(* called, and all shells have the same count.                             *)
(* When warmup returns, every function has been called c*n more times and  *)
(* every shell's duration and memory measurement is what it was.           *)
(***************************************************************************)
\* c rounds over the shells 1..L
Rounds(c, L) == [j \in 1..(c * L) |-> ((j - 1) % L) + 1]

Returned(op) == measurer.pc = "idle" /\ measurer.op = op /\ measurer.outcome = "returned"

BuiltIn ==
    [dataUnitsCount |-> 100, seriesSize |-> 1000, seriesCount |-> 10, delay |-> 1,
     forceGC |-> FALSE]

Resolved == args # None /\ Get(args).config # None /\ returned # None

C27_ConfigThenSettingsThenDefault ==
    Resolved =>
        LET config == Get(Get(args).config)
            set == Get(args).set
            parameters == Get(returned)
        IN  /\ \A k \in DOMAIN BuiltIn :
                   parameters[k] = IF config[k] # None THEN Get(config[k])
                                   ELSE IF set[k] # None THEN Get(set[k])
                                   ELSE BuiltIn[k]
            /\ config.dataUnitSizes # None => parameters.dataUnitSizes = Get(config.dataUnitSizes)
            /\ config.dataUnitSizes = None /\ set.dataUnitSizes # None
                   => parameters.dataUnitSizes = Get(set.dataUnitSizes)
            /\ parameters.memoryMeasurementsCount =
                   IF config.memoryMeasurementsCount # None THEN config.memoryMeasurementsCount
                   ELSE set.memoryMeasurementsCount

\* a configuration supplying 0 for seriesCount over settings that say 2, and settings
\* that say false for forceGC used where the configuration is silent
C27_Witness ==
    /\ Resolved
    /\ Get(Get(args).config).seriesCount = Some(0)
    /\ Get(args).set.seriesCount = Some(2)
    /\ Get(returned).seriesCount = 0
    /\ Get(args).set.delay = Some(0)
    /\ Get(returned).delay = 0
    /\ Get(args).set.dataUnitsCount = None
    /\ Get(returned).dataUnitsCount = 100
(***************************************************************************)
(* C28: a run whose effective dataUnitSizes is empty calls no target and   *)
(* no generator, hints no collection, emits no progress event, and goes    *)
(* from its start to its end without suspending: it only walks the groups  *)
(* of its plan and returns.                                                *)
(***************************************************************************)
EmptySizes(r) == run[r].pc # "idle" /\ run[r].parameters.dataUnitSizes = <<>>

C28_EmptySizesRunsNothing ==
    \A r \in RunIds :
        EmptySizes(r) =>
            /\ run[r].calls = <<>>
            /\ run[r].generatorCalls = 0
            /\ run[r].gcHints = 0
            /\ events[r] = <<>>
            /\ run[r].pc \in {"group", "size", "return", "done"}
            /\ run[r].pc # "done" => active = r

\* such a run over a plan of two groups or more has ended with its complete message
C28_Witness ==
    /\ EmptySizes(1)
    /\ run[1].pc = "done"
    /\ Len(run[1].allPathKeys) >= 2
    /\ \E n \in 1..Len(sent["ws1"]) : sent["ws1"][n] = [type |-> "complete", run |-> 1]
(***************************************************************************)
(* C29: skipSubGroup(group, subGroup) called during a run does to the run  *)
(* what skipPathKey does when called with the owning path key of the       *)
(* leaves registered under group and subGroup: from the call on that key   *)
(* is in the skip set of the run.                                          *)
(***************************************************************************)
C29_SkipSubGroupSkipsOwningKey ==
    args # None =>
        keyPath(<<Get(args).group, Get(args).subGroup, "leaf">>) \in skippedSubGroups
(***************************************************************************)
(* C30: the step that starts a run leaves the stop flag clear and the skip *)
(* set empty, whatever was stopped or skipped before the first run or      *)
(* during and after the run before it; so a run that has returned with the *)
(* flag still clear and the set still empty has gone through its whole     *)
(* plan.                                                                   *)
(***************************************************************************)
Starts(r) == run[r].pc \in {"idle", "done", "failed"} /\ run[r]'.pc = "group"

WholePlan(r) == run[r].currentStep = run[r].totalSteps

C30_StartClearsStopAndSkips ==
    /\ [](run[1].pc = "done" /\ ~stopRequested /\ skippedSubGroups = {} => WholePlan(1))
    /\ [][Starts(1) => ~stopRequested' /\ skippedSubGroups' = {}]_vars

\* a later run went through its whole plan of two leaves or more with nothing stopped or
\* skipped, after a stop that the other connection sent before this run started
C30_Witness ==
    /\ Len(sent["ws1"]) > 1
    /\ run[1].pc = "done"
    /\ run[1].totalSteps > 1
    /\ WholePlan(1)
    /\ ~stopRequested
    /\ skippedSubGroups = {}
    /\ activeConnections["ws2"].stopRequested
(***************************************************************************)
(* C31: a stop that arrives while a measure leaf is sampled (the run is    *)
(* suspended only there: in an awaited target call, in the delay after a   *)
(* series, in an awaited memory pass) starts no further series of the      *)
(* leaf; the memory passes, when configured, still run; one more event is  *)
(* emitted, for that leaf, from the series completed so far; and it is the *)
(* last event of the run.                                                  *)
(***************************************************************************)
MemoryConfigured(r) ==
    /\ run[r].parameters.memoryMeasurementsCount # None
    /\ Get(run[r].parameters.memoryMeasurementsCount) > 0

C31_StopWhileSampling ==
    /\ [](\A n \in 1..Len(events[1]) :
             events[1][n].stopped =>
                 /\ n = Len(events[1])
                 /\ events[1][n].kind = "result"
                 /\ events[1][n].samples <= run[1].parameters.seriesCount
                 /\ Get(events[1][n].result).series =
                        [k \in 1..events[1][n].samples |->
                            [series |-> k - 1, calls |-> run[1].parameters.seriesSize]]
                 /\ events[1][n].memory =
                        IF MemoryConfigured(1) THEN run[1].parameters.memoryMeasurementsCount
                        ELSE None)
    /\ [](run[1].pc = "done" /\ stopRequested =>
             Len(events[1]) > 0 /\ events[1][Len(events[1])].stopped)
    /\ [][stopRequested /\ run[1].pc = "series" => run[1]'.pc = "memory"]_vars

\* the run ended after a stop: its last event, the second or a later one, reports a leaf
\* with fewer series than configured and with its memory passes
C31_Witness ==
    /\ run[1].pc = "done"
    /\ stopRequested
    /\ Len(events[1]) > 1
    /\ events[1][Len(events[1])].stopped
    /\ events[1][Len(events[1])].samples < run[1].parameters.seriesCount
    /\ events[1][Len(events[1])].memory # None
(***************************************************************************)
(* C32: every run returns in the end, whatever stop and skip messages      *)
(* arrive and whenever they do, given that every awaited target call       *)
(* settles and every delay timer fires.                                    *)
(***************************************************************************)
C32_EveryRunReturns == (run[1].pc # "idle") ~> Ended(1)

\* a run has returned although a stop and a skip arrived while it was suspended
C32_Witness ==
    /\ run[1].pc = "done"
    /\ stopRequested
    /\ skippedSubGroups # {}
    /\ Len(events[1]) > 0
(***************************************************************************)
(* C33: a 'start' message that arrives while a run is in progress is       *)
(* neither rejected nor queued: in the step that handles it the second     *)
(* run begins, nothing is sent, the first run is left where it is          *)
(* suspended, and the stop flag and the skip set of the shared engine are  *)
(* cleared, whatever was requested for the first run.  Of two runs in      *)
(* progress at most one executes, the other is suspended at an await.      *)
(***************************************************************************)
Suspended(r) == run[r].pc \in {"awaitFn", "awaitMemFn", "delay"}

C33_StartDuringARun ==
    /\ [][InProgress(1) /\ Starts(2) =>
             /\ active' = 2
             /\ run[1]' = run[1]
             /\ Suspended(1)
             /\ sent' = sent
             /\ ~stopRequested'
             /\ skippedSubGroups' = {}]_vars
    /\ [](InProgress(1) /\ InProgress(2) =>
             \/ active = 1 /\ Suspended(2)
             \/ active = 2 /\ Suspended(1)
             \/ active = 0 /\ Suspended(1) /\ Suspended(2))

\* the second run has just begun while the first waits in the delay after a series; the
\* first connection had asked to stop during the leaf in flight, and the engine has
\* forgotten it
C33_Witness ==
    /\ run[1].pc = "delay"
    /\ run[2].pc = "group"
    /\ active = 2
    /\ activeConnections["ws1"].stopRequested
    /\ ~stopRequested
    /\ skippedSubGroups = {}
(***************************************************************************)
(* C34: the connections share one engine.  A stop message of either        *)
(* connection raises the one stop flag, which every run obeys at its check *)
(* points whoever started it, and a skip message names no connection at    *)
(* all; the progress, complete and error messages of a run go to the       *)
(* connection that started it and to no other.                             *)
(***************************************************************************)
C34_OneEngineForAllConnections ==
    /\ [](\A ws \in Connections : \A n \in 1..Len(sent[ws]) :
             run[sent[ws][n].run].ws = ws)
    /\ [][\A ws \in Connections :
             ~activeConnections[ws].stopRequested /\ activeConnections[ws].stopRequested'
                 => stopRequested']_vars
    /\ [][\A r \in RunIds :
             stopRequested /\ run[r].pc = "series" => run[r]'.pc = "memory"]_vars

\* the run of the first connection was cut short by a stop of the second, which has no
\* run of its own, and all its messages went to the first
C34_Witness ==
    /\ run[1].pc = "done"
    /\ run[2].pc = "idle"
    /\ ~WholePlan(1)
    /\ skippedSubGroups = {}
    /\ activeConnections["ws2"].stopRequested
    /\ ~activeConnections["ws1"].stopRequested
    /\ Len(sent["ws1"]) > 1
    /\ sent["ws2"] = <<>>
(***************************************************************************)
(* C35: the messages of one run in the log of its connection.              *)
(***************************************************************************)
SentOf(r, types) ==
    Cardinality({m \in UNION {{<<ws, n>> : n \in 1..Len(sent[ws])} : ws \in Connections} :
                    /\ sent[m[1]][m[2]].run = r
                    /\ sent[m[1]][m[2]].type \in types})

ProgressSent(r) == SentOf(r, {"progress", "customProgress"})

CompleteSent(r) == SentOf(r, {"complete"})

OneComplete ==
    \A r \in RunIds :
        /\ InProgress(r) => CompleteSent(r) = 0
        /\ run[r].pc = "done" => CompleteSent(r) = 1

\* C35 as stated: once the connection of a run has sent 'stop' during it, no progress or
\* customProgress message of that run is sent any more, and the run ends with exactly
\* one 'complete'
C35_NoProgressAfterStop ==
    /\ [][\A r \in RunIds :
             run[r].stopSent => ProgressSent(r)' = ProgressSent(r)]_vars
    /\ []OneComplete

\* C35 as amended: once a connection has sent 'stop' during its run, and until it sends
\* another 'start', no progress or customProgress message is sent to it (the events the
\* engine still produces are dropped), and the run ends with exactly one 'complete'
C35_NoProgressUntilNextStart ==
    /\ [][\A r \in RunIds :
             run[r].stopSent /\ activeConnections[run[r].ws].stopRequested
                 => ProgressSent(r)' = ProgressSent(r)]_vars
    /\ [][\A r \in RunIds : \A ws \in Connections :
             run[r].stopSent /\ run[r].ws = ws /\ ~activeConnections[ws].stopRequested
                 => \E q \in RunIds : q # r /\ run[q].ws = ws /\ run[q].pc # "idle"]_vars
    /\ []OneComplete

\* the first connection stopped its own run after one progress message; the event of the
\* leaf in flight was produced and dropped, and the run ended with its one 'complete'
C35_Witness ==
    /\ run[1].pc = "done"
    /\ run[1].stopSent
    /\ run[2].pc = "idle"
    /\ activeConnections["ws1"].stopRequested
    /\ ProgressSent(1) >= 1
    /\ Len(events[1]) > ProgressSent(1)
    /\ CompleteSent(1) = 1
(***************************************************************************)
(* C36: a registration call that throws, be it for an empty title, for an  *)
(* argument that is no function, for a title a sibling has or for a        *)
(* measure beside an evaluate, leaves the hierarchy, the flat list of      *)
(* measures and the flat list of evaluations as they were; and each of     *)
(* these calls does throw.                                                 *)
(***************************************************************************)
C36_ThrowingCallChangesNothing ==
    [][IsCall =>
          /\ ~WellTypedCall \/ CallBreaksARule => returned' = Some("threw")
          /\ returned' = Some("threw") =>
                 /\ registry'.nodes = registry.nodes
                 /\ registry'.registeredFunctions = registry.registeredFunctions
                 /\ registry'.customEvaluations = registry.customEvaluations]_vars

\* measureAsync was refused for a data generator that is no function, with a title no
\* sibling has, when a measure and a describe block were registered
C36_Witness ==
    /\ args # None
    /\ Get(args).op = "measureAsync"
    /\ Get(args).title = "A > B"
    /\ Get(args).fn = "f"
    /\ Get(args).dataGenerator = NotAFunction
    /\ returned = Some("threw")
    /\ Len(registry.registeredFunctions) = 1
    /\ Len(registry.nodes) = 3
    /\ \A id \in 2..Len(registry.nodes) : registry.nodes[id].title # "A > B"
(***************************************************************************)
(* C37: the describe context stack is the chain of the describe blocks     *)
(* whose runner is running, from the root inwards.  A describe call whose  *)
(* tests pass pushes its new node; when its runner returns or throws, that *)
(* node is popped and nothing else changes, so the stack is what it was    *)
(* before the call and the node keeps its place and its children; no other *)
(* call touches the stack.                                                 *)
(***************************************************************************)
RunnerLeft == Get(returned') \in {"returned", "runnerThrew"}

C37_DescribeRestoresTheStack ==
    /\ [](LET stack == registry.describeContextStack
          IN  /\ stack[1] = RootId
              /\ \A i \in 1..(Len(stack) - 1) :
                     \E c \in 1..Len(registry.nodes[stack[i]].children) :
                        registry.nodes[stack[i]].children[c] = stack[i + 1])
    /\ [][LET stack == registry.describeContextStack
          IN  /\ RunnerLeft =>
                     /\ registry' = [registry EXCEPT !.describeContextStack = Front(stack)]
                     /\ Get(args').title = registry.nodes[Last(stack)].title
              /\ ~RunnerLeft =>
                     IF Get(args').op = "describe" /\ returned' = Some("ok")
                     THEN registry'.describeContextStack = Append(stack, Len(registry.nodes) + 1)
                     ELSE registry'.describeContextStack = stack]_vars

\* the runner of describe('A') registered a measure and a nested describe block and then
\* threw: the stack is back at the root, and the node of 'A' has its two children
C37_Witness ==
    /\ returned = Some("runnerThrew")
    /\ Get(args).title = "A"
    /\ registry.describeContextStack = <<RootId>>
    /\ Len(registry.nodes) = 4
    /\ registry.nodes[RootId].children = <<2>>
    /\ registry.nodes[2].title = "A"
    /\ registry.nodes[2].children = <<3, 4>>
    /\ registry.nodes[3].type = "measure"
    /\ registry.nodes[4].type = "describe"
(***************************************************************************)
(* C38: in a hierarchy none of whose titles holds the separator, distinct  *)
(* leaves have distinct joined paths, and every entry of the plan of a run *)
(* is bound to the function that was registered under the path of its own  *)
(* leaf: the entry's title and owning path key are those of the path of    *)
(* its function, and no two entries have the same function.                *)
(***************************************************************************)
PlanOf(r) ==
    LET keys == run[r].allPathKeys
        RECURSIVE Over(_)
        Over(i) == IF i > Len(keys) THEN <<>> ELSE run[r].itemsByPathKey[keys[i]] \o Over(i + 1)
    IN  Over(1)

C38_EveryLeafItsOwnFunction ==
    run[1].pc # "idle" =>
        LET plan == PlanOf(1)
        IN  /\ \A a, b \in 1..Len(Leaves) : a # b => Join(Leaves[a].path) # Join(Leaves[b].path)
            /\ \A i \in 1..Len(plan) :
                   /\ Last(plan[i].target.path) = plan[i].title
                   /\ keyPath(plan[i].target.path) = plan[i].pathKey
            /\ \A i, j \in 1..Len(plan) : i # j => plan[i].target # plan[j].target
(***************************************************************************)
(* C39: a Measurement after reset and updates and concats that are not     *)
(* empty.                                                                  *)
(***************************************************************************)
\* sum / cnt
Avg(m) == FlDiv(m.sum, FromInt(m.cnt))

RECURSIVE CountOf(_)
CountOf(given) == IF Len(given) = 0 THEN 0 ELSE given[1].cnt + CountOf(Tail(given))

\* m.sum is the sum of all the v: counted in units of the least power of two among
\* them, it is the sum of their counts
SumOfAll(given, m) ==
    LET exponents == {given[i].v.e : i \in {k \in 1..Len(given) : given[k].v # Zero}}
        low == CHOOSE e \in exponents : \A f \in exponents : e <= f
        Units(x) == IF x = Zero THEN 0 ELSE x.m * Pow2(x.e - low)
        RECURSIVE Total(_)
        Total(n) == IF n = 0 THEN 0 ELSE Units(given[n].v) + Total(n - 1)
    IN  IF exponents = {} THEN m.sum = Zero
        ELSE Units(m.sum) = Total(Len(given))

WasReset == args' = Some(<<>>) => returned' = Some([min |-> Infinity, max |-> Zero,
                                                     sum |-> Zero, cnt |-> 0])

\* C39 as stated: min <= avg <= max, sum is the sum of all v and cnt the sum of all
\* counts; reset gives min = Infinity, max = 0, sum = 0, cnt = 0
C39_MeasurementOrdered ==
    /\ [](returned # None /\ Get(args) # <<>> =>
             LET m == Get(returned)
             IN  /\ FlLeq(m.min, Avg(m))
                 /\ FlLeq(Avg(m), m.max)
                 /\ SumOfAll(Get(args), m)
                 /\ m.cnt = CountOf(Get(args)))
    /\ [][WasReset]_vars

\* C39 as amended: cnt is the sum of all counts and min <= max; when no addition was
\* rounded, so that sum is the sum of all v, min <= avg <= max; reset gives
\* min = Infinity, max = 0, sum = 0, cnt = 0
C39_MeasurementOrderedUpToRounding ==
    /\ [](returned # None /\ Get(args) # <<>> =>
             LET m == Get(returned)
             IN  /\ m.cnt = CountOf(Get(args))
                 /\ FlLeq(m.min, m.max)
                 /\ SumOfAll(Get(args), m) =>
                        /\ FlLeq(m.min, Avg(m))
                        /\ FlLeq(Avg(m), m.max))
    /\ [][WasReset]_vars

\* an update of 0.2 for two calls, then a concat with a Measurement of 0.2 for one call:
\* min 0.1 < avg < max 0.2, no addition rounded
C39_Witness ==
    /\ returned # None
    /\ Get(args) = <<[v |-> Tenths(2), cnt |-> 2], [v |-> Tenths(2), cnt |-> 1]>>
    /\ SumOfAll(Get(args), Get(returned))
    /\ Get(returned).cnt = 3
    /\ Get(returned).min # Avg(Get(returned))
    /\ Get(returned).max # Avg(Get(returned))
    /\ Get(returned).max = Tenths(2)
====
